---- MODULE Spec2Model ----
(***************************************************************************)
(* Model of the modaletta web application's authentication subsystem:     *)
(* OAuth configuration, JWT session tokens, the CSRF state table, the     *)
(* /auth router (login, callback, status), the authorization providers    *)
(* and the gating middleware; and of two parts outside it, the scheduled  *)
(* wakeup job and ModalettaAgent.  Specifications: Spec (the login flow), *)
(* SpecGate (the gated application), SpecUnits (the functions on their    *)
(* own), SpecReload (reload of the YAML provider), SpecStates (the CSRF   *)
(* table on its own), SpecApp (repeated webapp() invocations), SpecDegrade *)
(* (the middleware when its callees fail), SpecWakeup (agent_wakeup) and  *)
(* SpecAgent (ModalettaAgent).                                             *)
(*                                                                         *)
(* Time.  `now' is the wall clock in ticks; a datetime is a tick count.   *)
(* A JWT NumericDate is whole seconds, so the datetime -> NumericDate     *)
(* conversion done by jwt.encode truncates (TicksPerSecond ticks make one *)
(* second).                                                                *)
(*                                                                         *)
(* Randomness.  secrets.token_urlsafe(32) is modelled as a value never    *)
(* returned before: the n-th call yields the n-th name of its family.     *)
(*                                                                         *)
(* Python's None is the string "None"; absent and empty values are kept   *)
(* apart because the code tests truthiness (`if not x').                  *)
(***************************************************************************)
EXTENDS Integers, Sequences, FiniteSets, TLC

VARIABLES
    now,                     \* wall clock, in ticks
    ticks,                   \* number of clock advances taken so far
    env,                     \* os.environ (changes only in SpecApp)
    files,                   \* the file system: path -> parsed content of the YAML file there
    randCount,               \* number of random JWT secrets generated so far
    stateCount,              \* number of CSRF states generated so far
    oauth_states,            \* auth.py _oauth_states: state -> issuance datetime
    validated,               \* history: state -> number of True returns of validate_oauth_state
    inflight,                \* auth_callback coroutines suspended at an await
    sessions,                \* the session token most recently set as a cookie, with the user, config and datetime it was minted from (empty before the first login completes)
    middleware_initialized,  \* api.py _middleware_initialized
    middleware_installed,    \* TRUE once app.add_middleware(AuthMiddleware) ran
    authorization_provider,  \* authorization.py _authorization_provider
    reloading,               \* the position of a running YAMLAuthorizationProvider.reload() call
    web_app,                 \* api.py web_app: its middleware stack and the number of mounts at "/"
    wakeup,                  \* the running agent_wakeup() call: roster, position, results
    agent,                   \* a ModalettaAgent object with the backend calls it made
    lastResp                 \* the response produced by the latest request, with the request it answers

vars == <<now, ticks, env, files, randCount, stateCount, oauth_states, validated, inflight,
          sessions, middleware_initialized, middleware_installed,
          authorization_provider, reloading, web_app, wakeup, agent, lastResp>>

None == "None"

\* Python truthiness of an Optional[str]
Falsy(x) == x = None \/ x = ""

----------------------------------------------------------------------------
(* Bounds *)

MaxTicks    == 2     \* clock advances per behaviour
MaxStates   == 1     \* CSRF states generated per behaviour (logins started)
MaxRand     == 3     \* random JWT secrets generated per behaviour
MaxInflight == 2     \* callbacks suspended at an await at the same time
MaxWebapp   == 2     \* webapp() invocations per behaviour
MaxGenerated == 3    \* generate_oauth_state calls per behaviour of the CSRF table on its own
MaxRoster   == 3     \* entries of the agent roster
MaxOps      == 4     \* operations on one ModalettaAgent

----------------------------------------------------------------------------
(* Time *)

TicksPerSecond   == 2
SecondsPerMinute == 60
SecondsPerHour   == 3600

\* timedelta(minutes=m), timedelta(hours=h) as ticks
Minutes(m) == m * SecondsPerMinute * TicksPerSecond
Hours(h)   == h * SecondsPerHour * TicksPerSecond

\* PyJWT encodes a datetime claim as timegm(dt.utctimetuple()): whole seconds
timegm(dt) == dt \div TicksPerSecond
\* datetime.fromtimestamp(seconds, tz=utc)
fromtimestamp(s) == s * TicksPerSecond

STATE_TTL_MINUTES == 10

\* amounts by which the clock advances in one step: the lifetime of a CSRF
\* state, and one tick more than the lifetime of a one-hour token
Jumps == {Minutes(STATE_TTL_MINUTES), Hours(1) + 1}

----------------------------------------------------------------------------
(* Configuration: OAuthConfig.from_env *)

DEFAULT_JWT_EXPIRATION_HOURS == 24

\* int(os.environ.get("JWT_EXPIRATION_HOURS", "24")): int() raises ValueError
\* on a string that is no integer literal, the empty string included
IsIntLiteral(s) == s \in {"1", "24"}
IntOf(s) == CASE s = "1" -> 1 [] s = "24" -> 24

Envs ==
    [GOOGLE_CLIENT_ID     : {None, "cid"},
     GOOGLE_CLIENT_SECRET : {"csecret"},
     JWT_SECRET           : {None, "K"},
     JWT_EXPIRATION_HOURS : {None, "1"},
     OAUTH_REDIRECT_URI   : {None},
     AUTHORIZED_USERS     : {None, "a@x.com, B@X.com"},
     AUTHORIZED_USERS_FILE : {None, "/etc/users.yaml"}]

\* secrets.token_urlsafe(32) producing a JWT secret: the n-th random secret
random_secret(n) == "rnd" \o ToString(n)
\* secrets.token_urlsafe(32) producing a CSRF state: the n-th random state
random_state(n) == "st" \o ToString(n)

NoConfig == [google_client_id |-> None, google_client_secret |-> None,
             jwt_secret |-> None, jwt_algorithm |-> None,
             jwt_expiration_hours |-> 0, redirect_uri |-> None]

\* from_env that does not require GOOGLE_CLIENT_SECRET
from_env_no_secret_check(e, n) ==
    IF Falsy(e.GOOGLE_CLIENT_ID)
    THEN [raised |-> "ValueError: GOOGLE_CLIENT_ID", rand |-> n, config |-> NoConfig]
    ELSE LET generate == Falsy(e.JWT_SECRET)
             rand     == IF generate THEN n + 1 ELSE n
         IN IF e.JWT_EXPIRATION_HOURS # None /\ ~IsIntLiteral(e.JWT_EXPIRATION_HOURS)
            THEN [raised |-> "ValueError: invalid literal for int()", rand |-> rand,
                  config |-> NoConfig]
            ELSE [raised |-> None,
                  rand   |-> rand,
                  config |-> [google_client_id     |-> e.GOOGLE_CLIENT_ID,
                              google_client_secret |-> e.GOOGLE_CLIENT_SECRET,
                              jwt_secret           |-> IF generate THEN random_secret(n + 1)
                                                       ELSE e.JWT_SECRET,
                              jwt_algorithm        |-> "HS256",
                              jwt_expiration_hours |->
                                  IF e.JWT_EXPIRATION_HOURS = None
                                  THEN DEFAULT_JWT_EXPIRATION_HOURS
                                  ELSE IntOf(e.JWT_EXPIRATION_HOURS),
                              redirect_uri         |-> e.OAUTH_REDIRECT_URI]]

\* OAuthConfig.from_env: e is the environment, n the number of random
\* secrets generated before the call.  The secret is generated before the
\* constructor call evaluates int(JWT_EXPIRATION_HOURS).
from_env(e, n) ==
    IF Falsy(e.GOOGLE_CLIENT_ID)
    THEN [raised |-> "ValueError: GOOGLE_CLIENT_ID", rand |-> n, config |-> NoConfig]
    ELSE IF Falsy(e.GOOGLE_CLIENT_SECRET)
    THEN [raised |-> "ValueError: GOOGLE_CLIENT_SECRET", rand |-> n, config |-> NoConfig]
    ELSE LET generate == Falsy(e.JWT_SECRET)
             rand     == IF generate THEN n + 1 ELSE n
         IN IF e.JWT_EXPIRATION_HOURS # None /\ ~IsIntLiteral(e.JWT_EXPIRATION_HOURS)
            THEN [raised |-> "ValueError: invalid literal for int()", rand |-> rand,
                  config |-> NoConfig]
            ELSE [raised |-> None,
                  rand   |-> rand,
                  config |-> [google_client_id     |-> e.GOOGLE_CLIENT_ID,
                              google_client_secret |-> e.GOOGLE_CLIENT_SECRET,
                              jwt_secret           |-> IF generate THEN random_secret(n + 1)
                                                       ELSE e.JWT_SECRET,
                              jwt_algorithm        |-> "HS256",
                              jwt_expiration_hours |->
                                  IF e.JWT_EXPIRATION_HOURS = None
                                  THEN DEFAULT_JWT_EXPIRATION_HOURS
                                  ELSE IntOf(e.JWT_EXPIRATION_HOURS),
                              redirect_uri         |-> e.OAUTH_REDIRECT_URI]]

\* get_oauth_config: the FastAPI dependency of login, callback and status
get_oauth_config(e, n) == from_env(e, n)

\* a call of from_env stays within the bound on generated secrets
CanLoadConfig == Falsy(env.JWT_SECRET) /\ ~Falsy(env.GOOGLE_CLIENT_ID) => randCount < MaxRand

----------------------------------------------------------------------------
(* JWT session tokens *)

\* identities the profile fetch can return; name and picture are optional
Users ==
    {[id |-> "g1", email |-> "a@x.com", name |-> "Ann", picture |-> "ann.png",
      email_verified |-> TRUE],
     [id |-> "g2", email |-> "B@X.com", name |-> None, picture |-> None,
      email_verified |-> FALSE],
     [id |-> "g3", email |-> "c@x.com", name |-> "Cy", picture |-> None,
      email_verified |-> TRUE]}
\* the identities exercised in the login flow
LoginUsers == {u \in Users : u.id \in {"g1", "g2"}}

\* the claims create_jwt_token puts in the payload, and those decode_jwt_token
\* reads with payload[...] (name and picture are read with payload.get)
PayloadClaims  == {"sub", "email", "name", "picture", "exp", "iat"}
RequiredClaims == <<"sub", "email", "exp", "iat">>

\* create_jwt_token with the lifetime taken as minutes
create_jwt_token_minutes(user_info, config, t) ==
    [kind    |-> "jwt",
     claims  |-> PayloadClaims,
     sub     |-> user_info.id,
     email   |-> user_info.email,
     name    |-> user_info.name,
     picture |-> user_info.picture,
     exp     |-> timegm(t + Minutes(config.jwt_expiration_hours)),
     iat     |-> timegm(t),
     alg     |-> config.jwt_algorithm,
     sig     |-> config.jwt_secret]

\* create_jwt_token(user_info, config) evaluated at datetime t.  The token
\* is its payload as jwt.encode serialises it (the claims present and their
\* values), and the key that signed it.
create_jwt_token(user_info, config, t) ==
    LET expiration == t + Hours(config.jwt_expiration_hours)
    IN [kind    |-> "jwt",
        claims  |-> PayloadClaims,
        sub     |-> user_info.id,
        email   |-> user_info.email,
        name    |-> user_info.name,
        picture |-> user_info.picture,
        exp     |-> timegm(expiration),
        iat     |-> timegm(t),
        alg     |-> config.jwt_algorithm,
        sig     |-> config.jwt_secret]

\* tokens a client can present that no callback of this process issued
GarbageToken == [kind |-> "garbage"]
ForgedTokens ==
    {[kind |-> "jwt", claims |-> PayloadClaims, sub |-> "g1", email |-> "a@x.com",
      name |-> None, picture |-> None, exp |-> timegm(Hours(48)), iat |-> 0,
      alg |-> "HS256", sig |-> "attacker"]}

\* the None returned by decode_jwt_token
NoTokenData == [kind |-> "None"]

\* an exception leaving decode_jwt_token
Raised(exc, what) == [kind |-> "raised", exc |-> exc, what |-> what]
IsRaised(r) == r.kind = "raised"

\* the first of payload["sub"], payload["email"], payload["exp"],
\* payload["iat"] that raises KeyError, in the order the TokenData(...) call
\* evaluates them; 0 if none does
FirstMissing(token) ==
    IF \A i \in DOMAIN RequiredClaims : RequiredClaims[i] \in token.claims THEN 0
    ELSE CHOOSE i \in DOMAIN RequiredClaims :
             /\ RequiredClaims[i] \notin token.claims
             /\ \A j \in 1..(i - 1) : RequiredClaims[j] \in token.claims

\* TokenData(...) built from the payload; payload.get yields None for an
\* absent name or picture
TokenDataOf(token) ==
    [kind    |-> "TokenData",
     sub     |-> token.sub,
     email   |-> token.email,
     name    |-> IF "name" \in token.claims THEN token.name ELSE None,
     picture |-> IF "picture" \in token.claims THEN token.picture ELSE None,
     exp     |-> fromtimestamp(token.exp),
     iat     |-> fromtimestamp(token.iat)]

\* decode_jwt_token that does not verify exp
decode_jwt_token_no_expiry(token, config, t) ==
    IF token.kind # "jwt" THEN NoTokenData
    ELSE IF token.alg # config.jwt_algorithm \/ token.sig # config.jwt_secret
    THEN NoTokenData
    ELSE IF FirstMissing(token) # 0
    THEN Raised("KeyError", RequiredClaims[FirstMissing(token)])
    ELSE TokenDataOf(token)

\* decode_jwt_token(token, config) evaluated at datetime t: TokenData, None,
\* or the exception that escapes.  jwt.decode raises InvalidTokenError on a
\* malformed token, a wrong algorithm or a signature made with another key,
\* and ExpiredSignatureError when the payload has an exp and exp <= now; it
\* requires no claim to be present.  Both are caught; the KeyError of
\* payload[...] on an absent claim is not.
decode_jwt_token(token, config, t) ==
    IF token.kind # "jwt" THEN NoTokenData
    ELSE IF token.alg # config.jwt_algorithm \/ token.sig # config.jwt_secret
    THEN NoTokenData
    ELSE IF "exp" \in token.claims /\ token.exp <= timegm(t) THEN NoTokenData
    ELSE IF FirstMissing(token) # 0
    THEN Raised("KeyError", RequiredClaims[FirstMissing(token)])
    ELSE TokenDataOf(token)

----------------------------------------------------------------------------
(* CSRF state table *)

\* generate_oauth_state without the removal of old entries
generate_oauth_state_no_cleanup(table, n, t1, t2) ==
    LET state == random_state(n + 1)
    IN [state |-> state,
        table |-> [s \in DOMAIN table \cup {state} |->
                       IF s = state THEN t1 ELSE table[s]]]

\* generate_oauth_state: n states were generated before; t1 and t2 are the
\* two successive readings of the clock
generate_oauth_state(table, n, t1, t2) ==
    LET state   == random_state(n + 1)
        stored  == [s \in DOMAIN table \cup {state} |->
                        IF s = state THEN t1 ELSE table[s]]
        cutoff  == t2 - Minutes(STATE_TTL_MINUTES)
        expired == {s \in DOMAIN stored : stored[s] < cutoff}
    IN [state |-> state,
        table |-> [s \in DOMAIN stored \ expired |-> stored[s]]]

\* validate_oauth_state without the `del': the state is found but stays in
\* the table
validate_oauth_state_keeps(table, state) ==
    [ok |-> state \in DOMAIN table, table |-> table]

\* validate_oauth_state: the boolean returned and the table left behind
validate_oauth_state(table, state) ==
    IF state \in DOMAIN table
    THEN [ok |-> TRUE, table |-> [s \in DOMAIN table \ {state} |-> table[s]]]
    ELSE [ok |-> FALSE, table |-> table]

----------------------------------------------------------------------------
(* Authorization providers *)

\* str.split(","), str.strip() and str.lower() on the strings of the model
SplitComma(v) ==
    CASE v = "a@x.com, B@X.com"     -> <<"a@x.com", " B@X.com">>
      [] v = "a@x.com,,A@X.COM , "  -> <<"a@x.com", "", "A@X.COM ", " ">>
      [] v = " , "                  -> <<" ", " ">>
      [] OTHER -> <<v>>
Strip(s) ==
    CASE s = " B@X.com" -> "B@X.com"
      [] s = "A@X.COM " -> "A@X.COM"
      [] s = " "        -> ""
      [] OTHER -> s
Lower(s) ==
    CASE s = "B@X.com" -> "b@x.com"
      [] s = "A@X.COM" -> "a@x.com"
      [] OTHER -> s

AllowAllProvider == [kind |-> "AllowAllProvider", emails |-> {}]

\* EnvironmentAuthorizationProvider that stores the items as they are split
EnvironmentAuthorizationProvider_verbatim(e) ==
    LET value == IF e.AUTHORIZED_USERS = None THEN "" ELSE e.AUTHORIZED_USERS
        items == SplitComma(value)
    IN [kind   |-> "EnvironmentAuthorizationProvider",
        emails |-> IF value = "" THEN {}
                   ELSE {items[i] : i \in DOMAIN items} \ {""}]

\* EnvironmentAuthorizationProvider.__init__ / _load_authorized_users
EnvironmentAuthorizationProvider(e) ==
    LET value == IF e.AUTHORIZED_USERS = None THEN "" ELSE e.AUTHORIZED_USERS
        items == SplitComma(value)
    IN [kind   |-> "EnvironmentAuthorizationProvider",
        emails |-> IF value = "" THEN {}
                   ELSE {Lower(Strip(items[i])) : i \in DOMAIN items} \ {""}]

\* the content of a YAML file as yaml.safe_load returns it: a mapping with
\* an authorized_users list, an empty document (None), a document whose top
\* level is a list, or text that does not parse.  A list entry is a string,
\* a mapping (with an email key whose value is a string or null, or without
\* one) or a number.
StrEntry(v)   == [type |-> "str", value |-> v]
DictEntry(v)  == [type |-> "dict", has_email |-> TRUE, email |-> v, role |-> "admin"]
DictNoEmail   == [type |-> "dict", has_email |-> FALSE, email |-> None, role |-> "user"]
DictNullEmail == [type |-> "dict", has_email |-> TRUE, email |-> None, role |-> "user"]
IntEntry      == [type |-> "int", value |-> "42"]
UsersDoc(entries) == [kind |-> "mapping", authorized_users |-> entries]
EmptyDoc      == [kind |-> "empty", authorized_users |-> << >>]
ListDoc       == [kind |-> "list", authorized_users |-> << >>]
UnparsableDoc == [kind |-> "unparsable", authorized_users |-> << >>]

DEFAULT_USERS_PATH == "/app/authorized_users.yaml"

\* one iteration of the loop of _load_authorized_users: the set after the
\* entry, and whether the iteration raised (None.lower() on an email key
\* whose value is null raises AttributeError)
AddEntry(user, acc) ==
    IF user.type = "str"
    THEN [raised |-> FALSE, emails |-> acc \cup {Lower(user.value)}]
    ELSE IF user.type = "dict" /\ user.has_email
    THEN IF user.email = None
         THEN [raised |-> TRUE, emails |-> acc]
         ELSE [raised |-> FALSE, emails |-> acc \cup {Lower(user.email)}]
    ELSE [raised |-> FALSE, emails |-> acc]

\* the loop of YAMLAuthorizationProvider._load_authorized_users over
\* users[i..], adding to the set acc; an exception ends the loop (it is
\* caught by `except Exception') and leaves what was added so far
RECURSIVE LoadEntries(_, _, _)
LoadEntries(users, i, acc) ==
    IF i > Len(users) THEN acc
    ELSE LET step == AddEntry(users[i], acc)
         IN IF step.raised THEN step.emails
            ELSE LoadEntries(users, i + 1, step.emails)

\* the list _load_authorized_users iterates over: data.get("authorized_users",
\* []) of the file, or nothing when the file is missing, empty, or reading
\* it raises (no parse, top level not a mapping)
users_of(yaml_path, fs) ==
    IF yaml_path \notin DOMAIN fs THEN << >>
    ELSE IF fs[yaml_path].kind # "mapping" THEN << >>
    ELSE fs[yaml_path].authorized_users

\* YAMLAuthorizationProvider._load_authorized_users: the set
\* _authorized_emails after the call, emails being the set before it.  A
\* missing file, an empty document and an exception while reading leave the
\* set as it is.
load_authorized_users(yaml_path, fs, emails) ==
    LoadEntries(users_of(yaml_path, fs), 1, emails)

\* YAMLAuthorizationProvider.__init__
YAMLAuthorizationProvider(yaml_path, fs) ==
    [kind      |-> "YAMLAuthorizationProvider",
     yaml_path |-> yaml_path,
     emails    |-> load_authorized_users(yaml_path, fs, {})]

\* AuthorizationProvider.is_authorized of the three implementations
is_authorized(provider, email) ==
    IF provider.kind = "AllowAllProvider" THEN TRUE
    ELSE Lower(email) \in provider.emails

\* a provider of another backend (AuthorizationProvider is the interface
\* for "database, API" backends) whose is_authorized raises
FailingProvider == [kind |-> "FailingProvider", emails |-> {}]

\* whether provider.is_authorized(email) raises instead of returning
is_authorized_raises(provider, email) == provider.kind = "FailingProvider"

\* get_authorization_provider: p is the module global _authorization_provider,
\* NoProvider its initial None
NoProvider == [kind |-> "None", emails |-> {}]
\* get_authorization_provider that returns a new allow-all provider on
\* every call
get_authorization_provider_unset(p) == AllowAllProvider
get_authorization_provider(p) == IF p = NoProvider THEN AllowAllProvider ELSE p

\* no reload() call is running
NotReloading == [pc |-> "idle"]

----------------------------------------------------------------------------
(* Requests *)

Absent == [kind |-> "absent"]     \* no such cookie / header
Empty  == [kind |-> "empty"]      \* the empty string

\* a URL path is the sequence of its segments: /api/health is <<"api", "health">>
\* and / is <<"">>
Paths ==
    {<<"">>, <<"index.html">>, <<"login.html">>, <<"unauthorized.html">>,
     <<"auth">>, <<"auth", "me">>, <<"api">>, <<"api", "health">>,
     <<"api", "agents">>}

\* path.startswith("/" + dir + "/")
StartsWithDir(path, dir) == Len(path) >= 2 /\ path[1] = dir

\* get_token_from_request that looks at the Authorization header first
get_token_from_request_header_first(request) ==
    IF request.authorization.kind = "bearer" THEN request.authorization.credentials
    ELSE IF request.cookie.kind \notin {"absent", "empty"} THEN request.cookie
    ELSE Absent

\* get_token_from_request: cookie first, then a "Bearer " Authorization header
get_token_from_request(request) ==
    IF request.cookie.kind \notin {"absent", "empty"} THEN request.cookie
    ELSE IF request.authorization.kind = "bearer" THEN request.authorization.credentials
    ELSE Absent

\* Python truthiness of the extracted token
TokenPresent(token) == token.kind \notin {"absent", "empty"}

----------------------------------------------------------------------------
(* Gating middleware: AuthMiddleware.dispatch *)

PUBLIC_PATHS ==
    {<<"auth", "login">>, <<"auth", "callback">>, <<"auth", "logout">>,
     <<"auth", "status">>, <<"api", "health">>}

\* the paths dispatch hands to call_next before looking at the token
Bypasses(path) ==
    \/ path \in PUBLIC_PATHS
    \/ StartsWithDir(path, "auth")
    \/ path = <<"login.html">>
    \/ path = <<"unauthorized.html">>

\* urllib.parse.quote(s, safe="") on the strings of the model
quote(s) ==
    CASE s = "a@x.com" -> "a%40x.com"
      [] s = "B@X.com" -> "B%40X.com"
      [] s = "c@x.com" -> "c%40x.com"
      [] s = "bad request&x" -> "bad%20request%26x"
      [] OTHER -> s

\* the unauthenticated response without the distinction of API paths
Unauthenticated_redirect_only(path) ==
    [status |-> 307, detail |-> None, location |-> "/login.html"]

\* the response of dispatch to a request without valid session
Unauthenticated(path) ==
    IF StartsWithDir(path, "api")
    THEN [status |-> 401, detail |-> "Authentication required", location |-> None]
    ELSE [status |-> 307, detail |-> None, location |-> "/login.html"]

\* the denial answered like a missing session
Forbidden_as_unauthenticated(path, email) ==
    IF StartsWithDir(path, "api")
    THEN [status |-> 401, detail |-> "Authentication required", location |-> None]
    ELSE [status |-> 307, detail |-> None, location |-> "/login.html"]

\* the response of dispatch to a valid session whose email is not authorized
Forbidden(path, email) ==
    IF StartsWithDir(path, "api")
    THEN [status |-> 403, detail |-> "User is not authorized to access this application",
          location |-> None]
    ELSE [status |-> 307, detail |-> None,
          location |-> "/unauthorized.html?email=" \o quote(email)]

\* what the downstream handler (call_next) yields
Downstream(raises) ==
    IF raises THEN [status |-> 500, detail |-> "handler raised", location |-> None]
    ELSE [status |-> 200, detail |-> "handler response", location |-> None]

\* AuthMiddleware.dispatch that lets every valid token through without
\* consulting the provider
dispatch_unchecked(request, cfgres, p, t, raises) ==
    LET path  == request.path
        token == get_token_from_request(request)
        out(resp, invoked, loaded) ==
            [response |-> resp, handler_invoked |-> invoked, config_loaded |-> loaded]
    IN IF Bypasses(path) THEN out(Downstream(raises), TRUE, FALSE)
       ELSE IF ~TokenPresent(token) THEN out(Unauthenticated(path), FALSE, FALSE)
       ELSE IF cfgres.raised # None THEN out(Unauthenticated(path), FALSE, TRUE)
       ELSE IF decode_jwt_token(token, cfgres.config, t).kind # "TokenData"
       THEN out(Unauthenticated(path), FALSE, TRUE)
       ELSE IF raises THEN out(Unauthenticated(path), TRUE, TRUE)
       ELSE out(Downstream(FALSE), TRUE, TRUE)

\* AuthMiddleware.dispatch without its `try': an exception of from_env,
\* decode_jwt_token or the provider propagates and the server answers 500
dispatch_propagating(request, cfgres, p, t, raises) ==
    LET path  == request.path
        token == get_token_from_request(request)
        error == [status |-> 500, detail |-> "Internal Server Error", location |-> None]
        out(resp, invoked, loaded) ==
            [response |-> resp, handler_invoked |-> invoked, config_loaded |-> loaded]
    IN IF Bypasses(path) THEN out(Downstream(raises), TRUE, FALSE)
       ELSE IF ~TokenPresent(token) THEN out(Unauthenticated(path), FALSE, FALSE)
       ELSE IF cfgres.raised # None THEN out(error, FALSE, TRUE)
       ELSE LET token_data == decode_jwt_token(token, cfgres.config, t)
            IN IF IsRaised(token_data) THEN out(error, FALSE, TRUE)
               ELSE IF token_data = NoTokenData THEN out(Unauthenticated(path), FALSE, TRUE)
               ELSE IF is_authorized_raises(get_authorization_provider(p), token_data.email)
               THEN out(error, FALSE, TRUE)
               ELSE IF is_authorized(get_authorization_provider(p), token_data.email)
               THEN out(Downstream(raises), TRUE, TRUE)
               ELSE out(Forbidden(path, token_data.email), FALSE, TRUE)

\* AuthMiddleware.dispatch for one request at datetime t.  cfgres is the
\* result of OAuthConfig.from_env() (evaluated only when a token is
\* present), p the global provider, raises whether the downstream handler
\* raises.  Yields the response, whether call_next was invoked, and whether
\* from_env was called.
dispatch(request, cfgres, p, t, raises) ==
    LET path  == request.path
        token == get_token_from_request(request)
        out(resp, invoked, loaded) ==
            [response |-> resp, handler_invoked |-> invoked, config_loaded |-> loaded]
    IN IF Bypasses(path) THEN out(Downstream(raises), TRUE, FALSE)
       ELSE IF ~TokenPresent(token) THEN out(Unauthenticated(path), FALSE, FALSE)
       ELSE IF cfgres.raised # None THEN out(Unauthenticated(path), FALSE, TRUE)
       ELSE LET token_data == decode_jwt_token(token, cfgres.config, t)
            IN IF IsRaised(token_data) \/ token_data = NoTokenData
               THEN \* an exception of decode_jwt_token is caught by `except
                    \* Exception' and falls to the unauthenticated response
                    out(Unauthenticated(path), FALSE, TRUE)
               ELSE IF is_authorized_raises(get_authorization_provider(p), token_data.email)
               THEN out(Unauthenticated(path), FALSE, TRUE)
               ELSE IF is_authorized(get_authorization_provider(p), token_data.email)
               THEN \* call_next is awaited inside the try block: an exception of
                    \* the handler is caught by `except Exception'
                    IF raises THEN out(Unauthenticated(path), TRUE, TRUE)
                    ELSE out(Downstream(FALSE), TRUE, TRUE)
               ELSE out(Forbidden(path, token_data.email), FALSE, TRUE)

----------------------------------------------------------------------------
(* Provider selection and middleware installation *)

\* configure_authorization_from_env: the provider it selects and stores in
\* the global
configure_authorization_from_env(e, fs) ==
    IF ~Falsy(e.AUTHORIZED_USERS) THEN EnvironmentAuthorizationProvider(e)
    ELSE IF ~Falsy(e.AUTHORIZED_USERS_FILE) /\ e.AUTHORIZED_USERS_FILE \in DOMAIN fs
    THEN YAMLAuthorizationProvider(e.AUTHORIZED_USERS_FILE, fs)
    ELSE IF DEFAULT_USERS_PATH \in DOMAIN fs
    THEN YAMLAuthorizationProvider(DEFAULT_USERS_PATH, fs)
    ELSE AllowAllProvider

\* is_auth_enabled
is_auth_enabled(e) == ~Falsy(e.GOOGLE_CLIENT_ID) /\ ~Falsy(e.GOOGLE_CLIENT_SECRET)

\* no response is waiting to leave the server
NoResp == [kind |-> "none"]
Quiet == lastResp = NoResp

\* web_app after import of api.py: the CORS middleware added, nothing
\* mounted at "/"
NewApp == [user_middleware |-> <<"CORSMiddleware">>, mounts |-> 0]

\* Starlette add_middleware: the new middleware goes on top of the stack
add_middleware(app, middleware) ==
    [app EXCEPT !.user_middleware = <<middleware>> \o @]

\* web_app.mount("/", StaticFiles(...), name="static")
mount(app) == [app EXCEPT !.mounts = @ + 1]

\* setup_auth_middleware, its effect on the application object
setup_auth_middleware(app, e) ==
    IF ~is_auth_enabled(e) THEN app ELSE add_middleware(app, "AuthMiddleware")

\* webapp() without the _middleware_initialized test
webapp_every_time(initialized, app, e) ==
    [initialized |-> TRUE, app |-> mount(setup_auth_middleware(app, e))]

\* webapp(): the flag and the application object it returns
webapp(initialized, app, e) ==
    [initialized |-> TRUE,
     app |-> mount(IF ~initialized THEN setup_auth_middleware(app, e) ELSE app)]

\* webapp(): installs the middleware on its first invocation and mounts
\* the static files on every invocation
Webapp ==
    /\ Quiet
    /\ web_app.mounts < MaxWebapp
    /\ LET w == webapp(middleware_initialized, web_app, env)
       IN /\ middleware_initialized' = w.initialized
          /\ web_app' = w.app
    /\ IF ~middleware_initialized /\ is_auth_enabled(env)
       THEN /\ authorization_provider' = configure_authorization_from_env(env, files)
            /\ middleware_installed' = TRUE
       ELSE UNCHANGED <<authorization_provider, middleware_installed>>
    /\ UNCHANGED <<wakeup, agent, reloading, now, ticks, env, files, randCount, stateCount, oauth_states, validated,
                   inflight, sessions, lastResp>>

----------------------------------------------------------------------------
(* The /auth router *)

CALLBACK_URL == "http://host/auth/callback"

\* the callback URL login and auth_callback compute: config.redirect_uri or
\* request.url_for("auth_callback")
redirect_uri_of(config) ==
    IF Falsy(config.redirect_uri) THEN CALLBACK_URL ELSE config.redirect_uri

\* get_google_auth_url that drops the state parameter
get_google_auth_url_no_state(config, redirect_uri, state) ==
    [base          |-> "https://accounts.google.com/o/oauth2/v2/auth",
     client_id     |-> config.google_client_id,
     redirect_uri  |-> redirect_uri,
     response_type |-> "code",
     scope         |-> "openid email profile",
     state         |-> None,
     access_type   |-> "online",
     prompt        |-> "select_account"]

\* get_google_auth_url: the authorization URL as its base and query parameters
get_google_auth_url(config, redirect_uri, state) ==
    [base          |-> "https://accounts.google.com/o/oauth2/v2/auth",
     client_id     |-> config.google_client_id,
     redirect_uri  |-> redirect_uri,
     response_type |-> "code",
     scope         |-> "openid email profile",
     state         |-> state,
     access_type   |-> "online",
     prompt        |-> "select_account"]

\* a response that is no redirect has no Location header
NoLocation == [path |-> None, auth_error |-> None]

\* an unhandled exception of a dependency or handler: FastAPI answers 500
ServerError(endpoint, req) ==
    [kind |-> "error", endpoint |-> endpoint, req |-> req, status |-> 500,
     location |-> NoLocation, cookie |-> Absent]

\* GET /auth/login.  The two clock readings of generate_oauth_state fall
\* in the same tick.
Login ==
    /\ Quiet
    /\ CanLoadConfig
    /\ stateCount < MaxStates
    /\ LET cfgres == get_oauth_config(env, randCount)
       IN /\ randCount' = cfgres.rand
          /\ IF cfgres.raised # None
             THEN /\ lastResp' = ServerError("login", None)
                  /\ UNCHANGED <<stateCount, oauth_states, validated>>
             ELSE LET gen == generate_oauth_state(oauth_states, stateCount, now, now)
                      url == get_google_auth_url(cfgres.config,
                                                 redirect_uri_of(cfgres.config), gen.state)
                  IN /\ stateCount' = stateCount + 1
                     /\ oauth_states' = gen.table
                     /\ validated' = [s \in DOMAIN validated \cup {gen.state} |->
                                          IF s \in DOMAIN validated THEN validated[s] ELSE 0]
                     /\ lastResp' = [kind |-> "login", req |-> None, status |-> 307,
                                     location |-> url, cookie |-> Absent]
    /\ UNCHANGED <<web_app, wakeup, agent, reloading, now, ticks, env, files, inflight, sessions, middleware_initialized,
                   middleware_installed, authorization_provider>>

\* RedirectResponse(url="/?auth_error=" + marker) of auth_callback
ErrorRedirect(marker) == [path |-> "/", auth_error |-> marker]

\* the response of one auth_callback run, with the steps the run went through
CallbackResp(req, status, location, cookie, state_ok, exchange, profile) ==
    [kind |-> "callback", req |-> req, status |-> status, location |-> location,
     cookie |-> cookie, state_ok |-> state_ok, exchange |-> exchange, profile |-> profile]

\* auth_callback that only looks the state up before the await and leaves
\* its removal for later
auth_callback_entry_deferred(code, state, error, table) ==
    IF ~Falsy(error)
    THEN [branch |-> "error", marker |-> quote(error), table |-> table]
    ELSE IF Falsy(code) \/ Falsy(state)
    THEN [branch |-> "missing", marker |-> "missing_params", table |-> table]
    ELSE IF state \notin DOMAIN table
    THEN [branch |-> "invalid", marker |-> "invalid_state", table |-> table]
    ELSE [branch |-> "proceed", marker |-> None, table |-> table]

\* auth_callback that checks for missing parameters before the provider's
\* error
auth_callback_entry_reordered(code, state, error, table) ==
    IF Falsy(code) \/ Falsy(state)
    THEN [branch |-> "missing", marker |-> "missing_params", table |-> table]
    ELSE IF ~Falsy(error)
    THEN [branch |-> "error", marker |-> quote(error), table |-> table]
    ELSE LET v == validate_oauth_state(table, state)
         IN IF ~v.ok
            THEN [branch |-> "invalid", marker |-> "invalid_state", table |-> v.table]
            ELSE [branch |-> "proceed", marker |-> None, table |-> v.table]

\* auth_callback that validates (and so consumes) the state before it
\* looks at the error and code parameters
auth_callback_entry_consuming(code, state, error, table) ==
    LET v == validate_oauth_state(table, state)
    IN IF ~Falsy(error)
       THEN [branch |-> "error", marker |-> quote(error), table |-> v.table]
       ELSE IF Falsy(code) \/ Falsy(state)
       THEN [branch |-> "missing", marker |-> "missing_params", table |-> v.table]
       ELSE IF ~v.ok
       THEN [branch |-> "invalid", marker |-> "invalid_state", table |-> v.table]
       ELSE [branch |-> "proceed", marker |-> None, table |-> v.table]

\* auth_callback up to its first await: the branch taken for the query
\* parameters and the state table left behind
auth_callback_entry(code, state, error, table) ==
    IF ~Falsy(error)
    THEN [branch |-> "error", marker |-> quote(error), table |-> table]
    ELSE IF Falsy(code) \/ Falsy(state)
    THEN [branch |-> "missing", marker |-> "missing_params", table |-> table]
    ELSE LET v == validate_oauth_state(table, state)
         IN IF ~v.ok
            THEN [branch |-> "invalid", marker |-> "invalid_state", table |-> v.table]
            ELSE [branch |-> "proceed", marker |-> None, table |-> v.table]

Idle == [pc |-> "idle"]
FreeSlots == {i \in 1..MaxInflight : inflight[i] = Idle}
Busy(i) == i \in 1..MaxInflight /\ inflight[i] # Idle

\* GET /auth/callback from the arrival of the request to the first await
\* (the POST of exchange_code_for_tokens) or to the response
CallbackBegin(code, state, error) ==
    /\ Quiet
    /\ CanLoadConfig
    /\ LET req    == [code |-> code, state |-> state, error |-> error]
           cfgres == get_oauth_config(env, randCount)
           entry  == auth_callback_entry(code, state, error, oauth_states)
       IN /\ randCount' = cfgres.rand
          /\ IF cfgres.raised # None
             THEN /\ lastResp' = ServerError("callback", req)
                  /\ UNCHANGED <<oauth_states, validated, inflight>>
             ELSE IF entry.branch # "proceed"
             THEN /\ lastResp' = CallbackResp(req, 307, ErrorRedirect(entry.marker), Absent,
                                              FALSE, None, None)
                  /\ oauth_states' = entry.table
                  /\ UNCHANGED <<validated, inflight>>
             ELSE /\ FreeSlots # {}
                  /\ LET i == CHOOSE j \in FreeSlots : \A k \in FreeSlots : j <= k
                     IN inflight' = [inflight EXCEPT ![i] =
                                        [pc |-> "exchange", req |-> req,
                                         config |-> cfgres.config,
                                         redirect_uri |-> redirect_uri_of(cfgres.config)]]
                  /\ oauth_states' = entry.table
                  /\ validated' = [validated EXCEPT ![state] = @ + 1]
                  /\ lastResp' = NoResp
    /\ UNCHANGED <<web_app, wakeup, agent, reloading, now, ticks, env, files, stateCount, sessions, middleware_initialized,
                   middleware_installed, authorization_provider>>

\* what the POST to the token endpoint can come back with: HTTP 200 with an
\* access_token, another status, HTTP 200 whose JSON has no access_token
\* (KeyError), or a transport failure / timeout (httpx exception)
ExchangeOutcomes == {"200", "non200", "no_access_token", "network_error"}

\* what the GET of the profile can come back with: HTTP 200 with id and
\* email, another status, HTTP 200 lacking id or email (KeyError), or a
\* transport failure
ProfileOutcomes == {"200", "non200", "bad_profile", "network_error"}

\* exchange_code_for_tokens followed by tokens["access_token"]: the
\* exception that leaves the step, or None
exchange_code_for_tokens(outcome) ==
    CASE outcome = "200"             -> None
      [] outcome = "non200"          -> "HTTPException"
      [] outcome = "no_access_token" -> "KeyError"
      [] outcome = "network_error"   -> "HTTPError"

\* get_google_user_info without the status check: a non-200 answer whose
\* body parses is taken for a profile
get_google_user_info_unchecked(outcome) ==
    CASE outcome = "200"           -> None
      [] outcome = "non200"        -> None
      [] outcome = "bad_profile"   -> "KeyError"
      [] outcome = "network_error" -> "HTTPError"

\* get_google_user_info: the exception that leaves the step, or None
get_google_user_info(outcome) ==
    CASE outcome = "200"           -> None
      [] outcome = "non200"        -> "HTTPException"
      [] outcome = "bad_profile"   -> "KeyError"
      [] outcome = "network_error" -> "HTTPError"

\* the except clauses of auth_callback: an HTTPException is re-raised and
\* FastAPI answers with its status code (401); any other exception becomes
\* the callback_failed redirect
callback_failure(raised) ==
    IF raised = "HTTPException"
    THEN [status |-> 401, location |-> NoLocation]
    ELSE [status |-> 307, location |-> ErrorRedirect("callback_failed")]

\* auth_callback resumed after the await in exchange_code_for_tokens
CallbackExchange(i, outcome) ==
    /\ Quiet
    /\ Busy(i)
    /\ inflight[i].pc = "exchange"
    /\ LET raised == exchange_code_for_tokens(outcome)
       IN IF raised = None
          THEN /\ inflight' = [inflight EXCEPT ![i].pc = "userinfo"]
               /\ UNCHANGED lastResp
          ELSE /\ inflight' = [inflight EXCEPT ![i] = Idle]
               /\ LET f == callback_failure(raised)
                  IN lastResp' = CallbackResp(inflight[i].req, f.status, f.location, Absent,
                                              TRUE, outcome, None)
    /\ UNCHANGED <<web_app, wakeup, agent, reloading, now, ticks, env, files, randCount, stateCount, oauth_states, validated,
                   sessions, middleware_initialized, middleware_installed,
                   authorization_provider>>

\* set_auth_cookie: the cookie put on the response
set_auth_cookie(token, max_age_hours) ==
    [name |-> "modaletta_auth", value |-> token, max_age |-> max_age_hours * SecondsPerHour,
     httponly |-> TRUE, secure |-> TRUE, samesite |-> "lax"]

\* auth_callback resumed after the await in get_google_user_info
CallbackUserInfo(i, outcome, user_info) ==
    /\ Quiet
    /\ Busy(i)
    /\ inflight[i].pc = "userinfo"
    /\ inflight' = [inflight EXCEPT ![i] = Idle]
    /\ LET raised == get_google_user_info(outcome)
       IN IF raised = None
          THEN LET config    == inflight[i].config
                   jwt_token == create_jwt_token(user_info, config, now)
               IN /\ lastResp' = CallbackResp(inflight[i].req, 307,
                                     [path |-> "/", auth_error |-> None],
                                     set_auth_cookie(jwt_token, config.jwt_expiration_hours),
                                     TRUE, "200", outcome)
                  /\ sessions' = {[token |-> jwt_token, user |-> user_info,
                                    config |-> config, at |-> now]}
          ELSE /\ LET f == callback_failure(raised)
                  IN lastResp' = CallbackResp(inflight[i].req, f.status, f.location, Absent,
                                              TRUE, "200", outcome)
               /\ UNCHANGED sessions
    /\ UNCHANGED <<web_app, wakeup, agent, reloading, now, ticks, env, files, randCount, stateCount, oauth_states, validated,
                   middleware_initialized, middleware_installed, authorization_provider>>

----------------------------------------------------------------------------
(* Requests carrying a token *)

\* the token strings a client can put in a cookie or a header: the session
\* tokens issued so far, a forged token, a string that is no JWT
ClientTokens == {x.token : x \in sessions} \cup ForgedTokens \cup {GarbageToken}

Cookies == {Absent, Empty} \cup ClientTokens
AuthorizationHeaders ==
    {Absent, [kind |-> "other"]} \cup
    {[kind |-> "bearer", credentials |-> c] : c \in {Empty} \cup ClientTokens}

\* get_current_user: the UserInfo of the request's token, None, or the
\* exception of decode_jwt_token passing through
NoUser == [kind |-> "None"]
get_current_user(request, config, t) ==
    LET token == get_token_from_request(request)
    IN IF ~TokenPresent(token) THEN NoUser
       ELSE LET token_data == decode_jwt_token(token, config, t)
            IN IF IsRaised(token_data) THEN token_data
               ELSE IF token_data = NoTokenData THEN NoUser
               ELSE [kind |-> "UserInfo", id |-> token_data.sub, email |-> token_data.email,
                     name |-> token_data.name, picture |-> token_data.picture,
                     email_verified |-> TRUE]

\* GET /auth/status
Status(cookie, authorization) ==
    /\ Quiet
    /\ CanLoadConfig
    /\ LET req    == [path |-> <<"auth", "status">>, cookie |-> cookie,
                      authorization |-> authorization]
           cfgres == get_oauth_config(env, randCount)
       IN /\ randCount' = cfgres.rand
          /\ IF cfgres.raised # None
             THEN lastResp' = ServerError("status", req)
             ELSE LET user == get_current_user(req, cfgres.config, now)
                  IN IF IsRaised(user)
                     THEN lastResp' = ServerError("status", req)
                     ELSE lastResp' = [kind |-> "status", req |-> req, status |-> 200,
                                       authenticated |-> user # NoUser, user |-> user,
                                       config |-> cfgres.config, at |-> now]
    /\ UNCHANGED <<web_app, wakeup, agent, reloading, now, ticks, env, files, stateCount, oauth_states, validated, inflight,
                   sessions, middleware_initialized, middleware_installed,
                   authorization_provider>>

\* a request for `path' handled by the application: through
\* AuthMiddleware.dispatch when the middleware is installed, directly by the
\* handler otherwise
Dispatch(path, cookie, authorization, raises) ==
    /\ Quiet
    /\ LET req     == [path |-> path, cookie |-> cookie, authorization |-> authorization]
           token   == get_token_from_request(req)
           loads   == middleware_installed /\ ~Bypasses(path) /\ TokenPresent(token)
           cfgres  == from_env(env, randCount)
           d       == IF middleware_installed
                      THEN dispatch(req, cfgres, authorization_provider, now, raises)
                      ELSE [response |-> Downstream(raises), handler_invoked |-> TRUE,
                            config_loaded |-> FALSE]
       IN /\ loads => CanLoadConfig
          /\ randCount' = IF d.config_loaded THEN cfgres.rand ELSE randCount
          /\ lastResp' = [kind |-> "dispatch", req |-> req,
                          handler_raised |-> d.handler_invoked /\ raises,
                          installed |-> middleware_installed,
                          status |-> d.response.status, detail |-> d.response.detail,
                          location |-> d.response.location,
                          handler_invoked |-> d.handler_invoked,
                          config |-> IF d.config_loaded THEN cfgres.config ELSE NoConfig,
                          at |-> now]
    /\ UNCHANGED <<web_app, wakeup, agent, reloading, now, ticks, env, files, stateCount, oauth_states, validated, inflight,
                   sessions, middleware_initialized, middleware_installed,
                   authorization_provider>>

----------------------------------------------------------------------------
(* Clock, responses leaving the server, and the specification *)

Tick(d) ==
    /\ Quiet
    /\ ticks < MaxTicks
    /\ now' = now + d
    /\ ticks' = ticks + 1
    /\ UNCHANGED <<web_app, wakeup, agent, reloading, env, files, randCount, stateCount, oauth_states, validated, inflight,
                   sessions, middleware_initialized, middleware_installed,
                   authorization_provider, lastResp>>

\* the response of the latest request leaves the server
Respond ==
    /\ ~Quiet
    /\ lastResp' = NoResp
    /\ UNCHANGED <<web_app, wakeup, agent, reloading, now, ticks, env, files, randCount, stateCount, oauth_states, validated,
                   inflight, sessions, middleware_initialized, middleware_installed,
                   authorization_provider>>

Codes  == {None, "", "code1"}
Errors == {None, "", "bad request&x"}
\* state parameters a callback can carry: absent, empty, never issued, or issued
PresentedStates == {None, "", "bogus"} \cup {random_state(n) : n \in 1..stateCount}

\* no agent_wakeup() run has started
NoWakeup == [pc |-> "idle"]
\* no ModalettaAgent has been constructed
NoAgent == [pc |-> "none"]

\* a file system without authorized-users file
NoFiles == << >>
\* the file systems of the model
FileSystems ==
    {NoFiles,
     [f \in {DEFAULT_USERS_PATH} |->
          UsersDoc(<<StrEntry("a@x.com"), DictEntry("B@X.com"), IntEntry, DictNoEmail>>)],
     [f \in {"/etc/users.yaml"} |-> UsersDoc(<<StrEntry("c@x.com")>>)]}

InitWith(worlds) ==
    /\ now = 0
    /\ ticks = 0
    /\ \E w \in worlds : env = w[1] /\ files = w[2]
    /\ randCount = 0
    /\ stateCount = 0
    /\ oauth_states = << >>
    /\ validated = << >>
    /\ inflight = [i \in 1..MaxInflight |-> Idle]
    /\ sessions = {}
    /\ middleware_initialized = FALSE
    /\ middleware_installed = FALSE
    /\ authorization_provider = NoProvider
    /\ reloading = NotReloading
    /\ web_app = NewApp
    /\ wakeup = NoWakeup
    /\ agent = NoAgent
    /\ lastResp = NoResp

(* The login flow: the /auth router on an application whose webapp() has   *)
(* not run (as the router is mounted in the tests); every outcome of the   *)
(* provider calls, every shape of callback request.                        *)

Init ==
    InitWith({w \in Envs \X {NoFiles} :
                  /\ w[1].JWT_EXPIRATION_HOURS = "1"
                  /\ w[1].AUTHORIZED_USERS = None /\ w[1].AUTHORIZED_USERS_FILE = None})

Next ==
    \/ \E d \in Jumps : Tick(d)
    \/ Login
    \/ Quiet /\ \E code \in Codes, state \in PresentedStates, error \in Errors :
                    CallbackBegin(code, state, error)
    \/ \E i \in 1..MaxInflight, outcome \in ExchangeOutcomes : CallbackExchange(i, outcome)
    \/ \E i \in 1..MaxInflight, outcome \in ProfileOutcomes, u \in LoginUsers :
           CallbackUserInfo(i, outcome, u)
    \/ \E cookie \in Cookies : Status(cookie, Absent)
    \/ Respond

Spec == Init /\ [][Next]_vars

(* The gated application: webapp() installs the middleware, users log in   *)
(* successfully, and requests for every path arrive with every kind of     *)
(* token.                                                                  *)

\* one source of authorized users at a time, or none; the default token
\* lifetime with the list in the environment; a generated signing secret
\* without authorized-users configuration
InitGate ==
    InitWith({w \in Envs \X FileSystems :
                  /\ w[1].JWT_EXPIRATION_HOURS = None <=> w[1].AUTHORIZED_USERS # None
                  /\ w[1].JWT_SECRET = None => w[1].AUTHORIZED_USERS = None /\ w[2] = NoFiles
                  /\ w[1].AUTHORIZED_USERS # None => w[2] = NoFiles
                  /\ w[1].AUTHORIZED_USERS_FILE # None <=> "/etc/users.yaml" \in DOMAIN w[2]})

\* the cookie / Authorization pairs of the requests: one of the two absent
\* or empty, or both present with different contents
RequestPairs ==
    {p \in Cookies \X AuthorizationHeaders :
        \/ p[1].kind \in {"absent", "empty"}
        \/ p[2].kind # "bearer"
        \/ p[1] = GarbageToken /\ p[2].credentials # GarbageToken
        \/ p[1] # GarbageToken /\ p[2].credentials = GarbageToken}

\* clients log in one after the other
NoLoginPending == sessions = {} /\ oauth_states = << >> /\ FreeSlots = 1..MaxInflight

NextGate ==
    \/ \E d \in Jumps : Tick(d)
    \/ ~middleware_initialized /\ Webapp
    \/ NoLoginPending /\ Login
    \/ \E state \in PresentedStates : CallbackBegin("code1", state, None)
    \/ \E i \in 1..MaxInflight : CallbackExchange(i, "200")
    \/ \E i \in 1..MaxInflight, u \in Users : CallbackUserInfo(i, "200", u)
    \/ Quiet /\ \E path \in Paths, p \in RequestPairs, raises \in BOOLEAN :
                    Dispatch(path, p[1], p[2], raises)
    \/ Respond

SpecGate == InitGate /\ [][NextGate]_vars

----------------------------------------------------------------------------
(* The functions on their own: configuration loading, token extraction,    *)
(* token decoding, provider selection and the providers' is_authorized,    *)
(* each applied to inputs drawn from the sets below.                       *)

\* OAuthConfig.from_env() called once more
LoadConfig ==
    /\ Quiet
    /\ randCount < MaxRand
    /\ LET cfgres == from_env(env, randCount)
       IN /\ randCount' = cfgres.rand
          /\ lastResp' = [kind |-> "config", raised |-> cfgres.raised,
                          config |-> cfgres.config, rand_before |-> randCount]
    /\ UNCHANGED <<web_app, wakeup, agent, reloading, now, ticks, env, files, stateCount, oauth_states, validated,
                   inflight, sessions, middleware_initialized, middleware_installed,
                   authorization_provider>>

\* get_token_from_request applied to a request with the given cookie and
\* Authorization header
ExtractToken(cookie, authorization) ==
    /\ Quiet
    /\ LET req == [path |-> <<"">>, cookie |-> cookie, authorization |-> authorization]
       IN lastResp' = [kind |-> "token", req |-> req, token |-> get_token_from_request(req)]
    /\ UNCHANGED <<web_app, wakeup, agent, reloading, now, ticks, env, files, randCount, stateCount, oauth_states,
                   validated, inflight, sessions, middleware_initialized,
                   middleware_installed, authorization_provider>>

\* decode_jwt_token applied to a token under the config of the environment
DecodeToken(token) ==
    /\ Quiet
    /\ CanLoadConfig
    /\ LET cfgres == from_env(env, randCount)
       IN /\ cfgres.raised = None
          /\ randCount' = cfgres.rand
          /\ lastResp' = [kind |-> "decode", token |-> token, config |-> cfgres.config,
                          at |-> now,
                          result |-> decode_jwt_token(token, cfgres.config, now)]
    /\ UNCHANGED <<web_app, wakeup, agent, reloading, now, ticks, env, files, stateCount, oauth_states, validated,
                   inflight, sessions, middleware_initialized, middleware_installed,
                   authorization_provider>>

\* get_authorization_provider().is_authorized(email)
IsAuthorized(email) ==
    /\ Quiet
    /\ lastResp' = [kind |-> "authz", email |-> email,
                    provider |-> get_authorization_provider(authorization_provider),
                    reloading |-> reloading,
                    result |-> is_authorized(
                                   get_authorization_provider(authorization_provider), email)]
    /\ UNCHANGED <<web_app, wakeup, agent, reloading, now, ticks, env, files, randCount, stateCount, oauth_states,
                   validated, inflight, sessions, middleware_initialized,
                   middleware_installed, authorization_provider>>

\* environments that differ in the OAuth configuration
ConfigEnvs ==
    [GOOGLE_CLIENT_ID     : {None, "", "cid"},
     GOOGLE_CLIENT_SECRET : {None, "", "csecret"},
     JWT_SECRET           : {None, "", "K"},
     JWT_EXPIRATION_HOURS : {None, "1", "abc"},
     OAUTH_REDIRECT_URI   : {None},
     AUTHORIZED_USERS     : {None},
     AUTHORIZED_USERS_FILE : {None}]

\* environments that differ in the authorized-users configuration
AuthzEnvs ==
    [GOOGLE_CLIENT_ID     : {"cid"},
     GOOGLE_CLIENT_SECRET : {"csecret"},
     JWT_SECRET           : {"K"},
     JWT_EXPIRATION_HOURS : {None},
     OAUTH_REDIRECT_URI   : {None},
     AUTHORIZED_USERS     : {None, "", "a@x.com, B@X.com", "a@x.com,,A@X.COM , ", " , "},
     AUTHORIZED_USERS_FILE : {None, "", "/etc/users.yaml"}]

\* contents of an authorized-users file
YamlDocs ==
    {UsersDoc(<<StrEntry("a@x.com"), DictEntry("B@X.com"), IntEntry, DictNoEmail>>),
     UsersDoc(<<StrEntry("A@X.COM"), StrEntry("a@x.com")>>),
     UsersDoc(<<DictNullEmail, StrEntry("c@x.com")>>),
     UsersDoc(<<StrEntry("c@x.com"), DictNullEmail, DictEntry("a@x.com")>>),
     UsersDoc(<< >>), EmptyDoc, ListDoc, UnparsableDoc}

\* file systems: each of the two paths missing or holding one of the documents
YamlFileSystems ==
    UNION {[P -> YamlDocs] : P \in SUBSET {DEFAULT_USERS_PATH, "/etc/users.yaml"}}

\* emails is_authorized is asked about
AskedEmails == {"a@x.com", "A@X.COM", "b@x.com", "B@X.com", "c@x.com", ""}

\* a config with the signing secret of ConfigEnvs and a one-hour lifetime
UnitConfig ==
    [google_client_id |-> "cid", google_client_secret |-> "csecret", jwt_secret |-> "K",
     jwt_algorithm |-> "HS256", jwt_expiration_hours |-> 1, redirect_uri |-> None]

\* tokens signed with the secret of ConfigEnvs: minted now or an hour ago,
\* for a user with or without name and picture
SignedTokens ==
    {create_jwt_token(u, UnitConfig, t) : u \in LoginUsers, t \in {0, 0 - Hours(1)}}

\* tokens with a valid signature whose payload lacks some of the claims
PartialTokens ==
    {[tok EXCEPT !.claims = PayloadClaims \ M] :
        tok \in {x \in SignedTokens : x.sub = "g1"},
        M \in SUBSET {"sub", "email", "exp", "iat", "name"} \ {{}}}

UnitTokens == SignedTokens \cup PartialTokens \cup ForgedTokens \cup {GarbageToken}

UnitCookies == {Absent, Empty, GarbageToken} \cup ForgedTokens
UnitHeaders ==
    {Absent, [kind |-> "other"]} \cup
    {[kind |-> "bearer", credentials |-> c] :
        c \in {Empty, GarbageToken} \cup {x \in SignedTokens : x.sub = "g1" /\ x.iat = 0}}

InitUnits ==
    InitWith((ConfigEnvs \X {NoFiles}) \cup (AuthzEnvs \X YamlFileSystems))

NextUnits ==
    \/ ~middleware_initialized /\ Webapp
    \/ LoadConfig
    \/ Quiet /\ \E cookie \in UnitCookies, authorization \in UnitHeaders :
                    ExtractToken(cookie, authorization)
    \/ Quiet /\ \E token \in UnitTokens : DecodeToken(token)
    \/ \E email \in AskedEmails : IsAuthorized(email)
    \/ Respond

SpecUnits == InitUnits /\ [][NextUnits]_vars

----------------------------------------------------------------------------
(* Reloading the YAML provider.  reload() is a plain method: it empties    *)
(* the set in place and then runs _load_authorized_users, which reads the  *)
(* file and adds the entries one by one.  Called from a thread other than  *)
(* the one serving requests, it is interleaved with is_authorized at each  *)
(* of these steps.                                                          *)

\* the authorized-users file is rewritten
EditFile(path, doc) ==
    /\ Quiet
    /\ path \in DOMAIN files
    /\ files[path] # doc
    /\ files' = [files EXCEPT ![path] = doc]
    /\ UNCHANGED <<web_app, wakeup, agent, reloading, now, ticks, env, randCount, stateCount, oauth_states, validated,
                   inflight, sessions, middleware_initialized, middleware_installed,
                   authorization_provider, lastResp>>

\* reload(): self._authorized_emails.clear()
ReloadClear ==
    /\ Quiet
    /\ authorization_provider.kind = "YAMLAuthorizationProvider"
    /\ reloading = NotReloading
    /\ reloading' = [pc |-> "cleared", old |-> authorization_provider.emails,
                     users |-> << >>, i |-> 0]
    /\ authorization_provider' = [authorization_provider EXCEPT !.emails = {}]
    /\ UNCHANGED <<web_app, wakeup, agent, now, ticks, env, files, randCount, stateCount, oauth_states, validated,
                   inflight, sessions, middleware_initialized, middleware_installed,
                   lastResp>>

\* reload(): _load_authorized_users up to the loop (exists, open, safe_load,
\* data.get)
ReloadRead ==
    /\ Quiet
    /\ reloading.pc = "cleared"
    /\ LET users == users_of(authorization_provider.yaml_path, files)
       IN reloading' = IF users = << >> THEN NotReloading
                       ELSE [reloading EXCEPT !.pc = "loop", !.users = users, !.i = 1]
    /\ UNCHANGED <<web_app, wakeup, agent, now, ticks, env, files, randCount, stateCount, oauth_states, validated,
                   inflight, sessions, middleware_initialized, middleware_installed,
                   authorization_provider, lastResp>>

\* reload(): one iteration of the loop of _load_authorized_users
ReloadAdd ==
    /\ Quiet
    /\ reloading.pc = "loop"
    /\ LET step == AddEntry(reloading.users[reloading.i], authorization_provider.emails)
       IN /\ authorization_provider' = [authorization_provider EXCEPT !.emails = step.emails]
          /\ reloading' = IF step.raised \/ reloading.i = Len(reloading.users)
                          THEN NotReloading
                          ELSE [reloading EXCEPT !.i = @ + 1]
    /\ UNCHANGED <<web_app, wakeup, agent, now, ticks, env, files, randCount, stateCount, oauth_states, validated,
                   inflight, sessions, middleware_initialized, middleware_installed,
                   lastResp>>

\* contents the reloaded file goes through
ReloadDocs ==
    {UsersDoc(<<StrEntry("a@x.com"), DictEntry("B@X.com")>>),
     UsersDoc(<<StrEntry("c@x.com"), StrEntry("a@x.com")>>),
     UsersDoc(<<StrEntry("a@x.com"), DictNullEmail, StrEntry("c@x.com")>>),
     EmptyDoc}

\* the environment names the file, and the file is there
InitReload ==
    InitWith({w \in AuthzEnvs \X {[f \in {"/etc/users.yaml"} |-> doc] : doc \in ReloadDocs} :
                  /\ w[1].AUTHORIZED_USERS = None
                  /\ w[1].AUTHORIZED_USERS_FILE = "/etc/users.yaml"})

NextReload ==
    \/ ~middleware_initialized /\ Webapp
    \/ \E doc \in ReloadDocs : EditFile("/etc/users.yaml", doc)
    \/ ReloadClear
    \/ ReloadRead
    \/ ReloadAdd
    \/ \E email \in AskedEmails : IsAuthorized(email)
    \/ Respond

SpecReload == InitReload /\ [][NextReload]_vars

----------------------------------------------------------------------------
(* Properties of the CSRF state table and of the callback *)

IssuedStates == DOMAIN validated
IsCallback == lastResp.kind = "callback"
\* the latest response is the invalid_state redirect
InvalidStateResp == IsCallback /\ lastResp.location = ErrorRedirect("invalid_state")

\* C1: a CSRF state validates at most once.  validate_oauth_state has
\* returned True at most once for every issued state; once it has, and for a
\* state that was never issued (the empty string, an unknown string, a state
\* not generated yet), it returns False on the current table.
C1_StateSingleUse ==
    /\ \A s \in IssuedStates : validated[s] <= 1
    /\ \A s \in IssuedStates : validated[s] = 1 => ~validate_oauth_state(oauth_states, s).ok
    /\ \A s \in {"", "bogus"} \cup {random_state(n) : n \in (stateCount + 1)..(MaxStates + 1)} :
           ~validate_oauth_state(oauth_states, s).ok

\* C1 witness: a state that validated once was presented again and rejected
C1_Witness ==
    /\ InvalidStateResp
    /\ lastResp.req.state \in IssuedStates
    /\ validated[lastResp.req.state] = 1

\* C2: of the callbacks presenting the same state while suspended at the
\* awaits, one passed validation: no two suspended callbacks hold the same
\* state, and a well-formed callback arriving with the state of a suspended
\* one is answered with the invalid_state redirect.
C2_OneConcurrentWinner ==
    /\ \A i, j \in 1..MaxInflight :
           Busy(i) /\ Busy(j) /\ i # j => inflight[i].req.state # inflight[j].req.state
    /\ \A i \in 1..MaxInflight :
           Busy(i) => /\ validated[inflight[i].req.state] = 1
                      /\ inflight[i].req.state \notin DOMAIN oauth_states
    /\ \A i \in 1..MaxInflight :
           /\ Busy(i)
           /\ IsCallback
           /\ lastResp.req.state = inflight[i].req.state
           /\ Falsy(lastResp.req.error) /\ ~Falsy(lastResp.req.code)
           => InvalidStateResp

\* C2 witness: a callback is suspended at an await and a second callback
\* with the same state has just been rejected
C2_Witness ==
    \E i \in 1..MaxInflight :
        /\ Busy(i)
        /\ InvalidStateResp
        /\ lastResp.req.state = inflight[i].req.state

\* the redirect reasons of the callback
CallbackMarkers(req) ==
    {"missing_params", "invalid_state", "callback_failed"} \cup
    (IF Falsy(req.error) THEN {} ELSE {quote(req.error)})

SuccessRedirect == [path |-> "/", auth_error |-> None]

\* C4 (as claimed): every response of auth_callback is a 307 redirect, to /
\* with the session cookie or to /?auth_error=<reason>; after a valid
\* state, a failed code exchange or profile fetch yields the
\* callback_failed redirect.
C4_AlwaysRedirect ==
    IsCallback =>
        /\ lastResp.status = 307
        /\ \/ lastResp.location = SuccessRedirect /\ lastResp.cookie # Absent
           \/ /\ lastResp.location \in {ErrorRedirect(m) : m \in CallbackMarkers(lastResp.req)}
              /\ lastResp.cookie = Absent
        /\ lastResp.state_ok /\ (lastResp.exchange # "200" \/ lastResp.profile # "200")
               => lastResp.location = ErrorRedirect("callback_failed")

\* C5 (as claimed): whenever the error parameter is present, the redirect
\* carries it, whatever code and state are.
C5_ErrorWheneverPresent ==
    IsCallback /\ lastResp.req.error # None =>
        lastResp.location = ErrorRedirect(quote(lastResp.req.error))

\* C5 (amended): the callback classifies in a fixed order.  A non-empty
\* error yields the redirect carrying its URL-escaped code, whatever code
\* and state are; otherwise (error absent or empty) a missing or empty code
\* or state yields missing_params; otherwise a state that is not in the
\* table, in particular one never issued, yields invalid_state.
C5_ClassificationOrder ==
    IsCallback =>
        LET req == lastResp.req
        IN /\ ~Falsy(req.error) =>
                  /\ lastResp.location = ErrorRedirect(quote(req.error))
                  /\ ~lastResp.state_ok
           /\ Falsy(req.error) /\ (Falsy(req.code) \/ Falsy(req.state)) =>
                  /\ lastResp.location = ErrorRedirect("missing_params")
                  /\ ~lastResp.state_ok
           /\ Falsy(req.error) /\ ~Falsy(req.code) /\ ~Falsy(req.state) =>
                  /\ req.state \notin IssuedStates => InvalidStateResp
                  /\ ~lastResp.state_ok <=> InvalidStateResp
                  /\ lastResp.state_ok => validated[req.state] = 1

\* C5 witness: an error arrived together with a code and a pending state
\* and was answered with the escaped error code
C5_Witness ==
    /\ IsCallback
    /\ lastResp.req.error = "bad request&x"
    /\ lastResp.req.code = "code1"
    /\ lastResp.req.state \in DOMAIN oauth_states
    /\ lastResp.location = ErrorRedirect("bad%20request%26x")

\* C6: the callback sets the session cookie exactly in the runs where the
\* state validated and both the code exchange and the profile fetch
\* returned 200; a 500 of the endpoint sets none.
C6_NoPartialAuth ==
    /\ IsCallback =>
           (lastResp.cookie # Absent <=>
                lastResp.state_ok /\ lastResp.exchange = "200" /\ lastResp.profile = "200")
    /\ IsCallback /\ lastResp.cookie # Absent =>
           \E x \in sessions : lastResp.cookie.value = x.token
    /\ lastResp.kind = "error" => lastResp.cookie = Absent

\* C6 witness: the profile fetch failed after the state validated and the
\* code exchange succeeded, and the response carries no cookie
C6_Witness ==
    /\ IsCallback
    /\ lastResp.state_ok /\ lastResp.exchange = "200" /\ lastResp.profile = "non200"
    /\ lastResp.cookie = Absent

----------------------------------------------------------------------------
(* Properties of the session tokens *)

IsStatus == lastResp.kind = "status"

\* the session whose cookie the latest /auth/status request carried
StatusSessions ==
    {x \in sessions : IsStatus /\ lastResp.req.cookie = x.token
                               /\ lastResp.at < fromtimestamp(x.token.exp)}

\* C7 (as claimed): a login whose callback succeeds is answered with the 307
\* redirect to / carrying the session cookie, and a following /auth/status
\* with that cookie reports authenticated with the email of the profile.
C7_EndToEnd ==
    /\ IsCallback /\ lastResp.state_ok /\ lastResp.exchange = "200"
                  /\ lastResp.profile = "200" =>
           /\ lastResp.status = 307
           /\ lastResp.location = SuccessRedirect
           /\ lastResp.cookie # Absent
    /\ \A x \in StatusSessions :
           /\ lastResp.authenticated
           /\ lastResp.user.email = x.user.email

\* the signing secrets of the configs obtained so far that are still held
ConfigSecrets ==
    {x.config.jwt_secret : x \in sessions}
    \cup {inflight[i].config.jwt_secret : i \in {j \in 1..MaxInflight : Busy(j)}}
    \cup (IF IsStatus THEN {lastResp.config.jwt_secret} ELSE {})

\* C8 (as claimed): without JWT_SECRET, all configs of the process carry the
\* same generated secret, and an unexpired session token is accepted by
\* the requests that follow.
C8_SecretGeneratedOnce ==
    Falsy(env.JWT_SECRET) =>
        /\ Cardinality(ConfigSecrets) <= 1
        /\ \A x \in StatusSessions :
               decode_jwt_token(x.token, lastResp.config, lastResp.at) # NoTokenData

\* C9: a minted token decodes, under the config it was minted with and
\* before its expiry, to the subject, email, name and picture of the user
\* (absent name and picture included), with exp = iat + configured lifetime.
C9_MintVerifyRoundTrip ==
    \A x \in sessions :
        now < fromtimestamp(x.token.exp) =>
            LET d == decode_jwt_token(x.token, x.config, now)
            IN /\ d # NoTokenData
               /\ d.sub = x.user.id
               /\ d.email = x.user.email
               /\ d.name = x.user.name
               /\ d.picture = x.user.picture
               /\ d.exp = d.iat + Hours(x.config.jwt_expiration_hours)
               /\ d.iat <= x.at /\ x.at < d.iat + TicksPerSecond

\* C9 witness: a token minted for a user without name and picture, at a
\* datetime that is not a whole second, is decoded later and before expiry
C9_Witness ==
    \E x \in sessions :
        /\ x.user.name = None /\ x.user.picture = None
        /\ x.at % TicksPerSecond # 0
        /\ x.at < now
        /\ now < fromtimestamp(x.token.exp)

\* configs a token can be decoded under: those that minted a session, the
\* one the next request would build, and one with a foreign secret
DecodeConfigs ==
    {x.config : x \in sessions}
    \cup {c \in {from_env(env, randCount).config} : c # NoConfig}
    \cup {[NoConfig EXCEPT !.jwt_secret = "attacker", !.jwt_algorithm = "HS256"]}

\* C10: decode_jwt_token accepts a token only under the secret that signed
\* it and before its expiry: a session token decodes to None under every
\* config with another secret, and to None once its expiry has passed.
C10_DecodeRejects ==
    /\ \A token \in ClientTokens, c \in DecodeConfigs :
           decode_jwt_token(token, c, now) # NoTokenData =>
               /\ token.kind = "jwt"
               /\ token.sig = c.jwt_secret
               /\ now < fromtimestamp(token.exp)
    /\ \A x \in sessions, c \in DecodeConfigs :
           c.jwt_secret # x.config.jwt_secret =>
               decode_jwt_token(x.token, c, now) = NoTokenData
    /\ \A x \in sessions :
           fromtimestamp(x.token.exp) <= now =>
               decode_jwt_token(x.token, x.config, now) = NoTokenData

\* C10 witness: a session token has reached its expiry and is refused under
\* the config that signed it
C10_Witness ==
    \E x \in sessions :
        /\ fromtimestamp(x.token.exp) <= now
        /\ decode_jwt_token(x.token, x.config, now) = NoTokenData

----------------------------------------------------------------------------
(* Properties of the gating middleware *)

IsDispatch == lastResp.kind = "dispatch"
GatedDispatch == IsDispatch /\ lastResp.installed /\ ~Bypasses(lastResp.req.path)

\* C3: with the middleware installed, a request for a path outside the
\* bypass set reaches its handler only if its token is signed with the
\* secret of the config built for the request, is not expired, and carries
\* an email the active provider authorizes.
C3_Gating ==
    GatedDispatch /\ lastResp.handler_invoked =>
        LET token    == get_token_from_request(lastResp.req)
            provider == authorization_provider
        IN /\ token.kind = "jwt"
           /\ token.sig = lastResp.config.jwt_secret
           /\ lastResp.at < fromtimestamp(token.exp)
           /\ provider # NoProvider
           /\ \/ provider.kind = "AllowAllProvider"
              \/ Lower(token.email) \in provider.emails

\* C3 witness: a gated request reached its handler under a provider that
\* restricts access
C3_Witness ==
    /\ GatedDispatch
    /\ lastResp.handler_invoked
    /\ authorization_provider.kind = "EnvironmentAuthorizationProvider"

----------------------------------------------------------------------------
(* Properties of token decoding and extraction *)

IsDecode == lastResp.kind = "decode"

\* C11 (as claimed): decode_jwt_token never raises: for every token, absent
\* claims included, it returns token data or None.
C11_DecodeNeverRaises ==
    IsDecode => lastResp.result.kind \in {"TokenData", "None"}

IsExtract == lastResp.kind = "token"

\* C12 (as claimed): whenever the modaletta_auth cookie is present, its value
\* is the token, whatever the Authorization header is; with the cookie
\* absent, the part after "Bearer " of the header; otherwise no token.
C12_CookieWheneverPresent ==
    IsExtract =>
        LET req == lastResp.req
        IN /\ req.cookie # Absent => lastResp.token = req.cookie
           /\ req.cookie = Absent /\ req.authorization.kind = "bearer" =>
                  lastResp.token = req.authorization.credentials
           /\ req.cookie = Absent /\ req.authorization.kind # "bearer" =>
                  lastResp.token = Absent

\* C12 (amended): a modaletta_auth cookie that is present and not empty is
\* the token, whatever the Authorization header is; with the cookie absent
\* or empty, the token is the part after "Bearer " of an Authorization
\* header with that prefix (possibly empty); otherwise there is no token.
C12_ExtractionPrecedence ==
    IsExtract =>
        LET req == lastResp.req
            no_cookie == req.cookie \in {Absent, Empty}
        IN /\ ~no_cookie => lastResp.token = req.cookie
           /\ no_cookie /\ req.authorization.kind = "bearer" =>
                  lastResp.token = req.authorization.credentials
           /\ no_cookie /\ req.authorization.kind # "bearer" =>
                  lastResp.token = Absent

\* C12 witness: a request carried a cookie and a Bearer header with another
\* token, and the cookie's value was extracted
C12_Witness ==
    /\ IsExtract
    /\ lastResp.req.cookie.kind = "jwt"
    /\ lastResp.req.authorization.kind = "bearer"
    /\ lastResp.req.authorization.credentials.kind = "jwt"
    /\ lastResp.req.authorization.credentials # lastResp.req.cookie
    /\ lastResp.token = lastResp.req.cookie

----------------------------------------------------------------------------
(* Properties of the middleware's refusals *)

\* the latest gated request carried no token: no cookie value, and no Bearer
\* credentials
DispatchNoToken ==
    /\ lastResp.req.cookie \in {Absent, Empty}
    /\ \/ lastResp.req.authorization.kind # "bearer"
       \/ lastResp.req.authorization.credentials = Empty

\* the token of the latest gated request, where it carried one
DispatchToken ==
    IF lastResp.req.cookie \notin {Absent, Empty} THEN lastResp.req.cookie
    ELSE lastResp.req.authorization.credentials

\* that token is a session token signed with the secret of the request's
\* config and not expired when the request arrived
DispatchTokenValid ==
    /\ ~DispatchNoToken
    /\ DispatchToken.kind = "jwt"
    /\ DispatchToken.sig = lastResp.config.jwt_secret
    /\ lastResp.at < fromtimestamp(DispatchToken.exp)

IsApiPath(path) == Len(path) >= 2 /\ path[1] = "api"

\* C13: a gated request without token, and one whose token is malformed,
\* signed with another secret or expired, get the same answer: 401 with
\* detail "Authentication required" under /api/, the redirect to
\* /login.html elsewhere; the handler is not invoked.
C13_UnauthenticatedBranch ==
    GatedDispatch /\ (DispatchNoToken \/ ~DispatchTokenValid) =>
        /\ ~lastResp.handler_invoked
        /\ IF IsApiPath(lastResp.req.path)
           THEN /\ lastResp.status = 401
                /\ lastResp.detail = "Authentication required"
                /\ lastResp.location = None
           ELSE /\ lastResp.status = 307
                /\ lastResp.location = "/login.html"

\* C13 witness: an expired session token on an API path was answered 401
C13_Witness ==
    /\ GatedDispatch
    /\ ~DispatchNoToken
    /\ DispatchToken.kind = "jwt"
    /\ DispatchToken.sig = lastResp.config.jwt_secret
    /\ fromtimestamp(DispatchToken.exp) <= lastResp.at
    /\ IsApiPath(lastResp.req.path)
    /\ lastResp.status = 401

\* the active provider rejects the email of the latest request's token
DispatchRejected ==
    /\ authorization_provider.kind \in {"EnvironmentAuthorizationProvider",
                                        "YAMLAuthorizationProvider"}
    /\ Lower(DispatchToken.email) \notin authorization_provider.emails

\* the emails of the model with `@' percent-encoded
EscapedEmail(email) ==
    CASE email = "a@x.com" -> "a%40x.com"
      [] email = "B@X.com" -> "B%40X.com"
      [] email = "c@x.com" -> "c%40x.com"

\* C14: a gated request with a valid token whose email the active provider
\* rejects is answered 403 with a JSON detail under /api/, and with the
\* redirect to /unauthorized.html?email=<escaped email> elsewhere; never
\* with 401 or the login redirect, and the handler is not invoked.
C14_AuthorizationDenial ==
    GatedDispatch /\ DispatchTokenValid /\ DispatchRejected =>
        /\ ~lastResp.handler_invoked
        /\ lastResp.status # 401
        /\ IF IsApiPath(lastResp.req.path)
           THEN /\ lastResp.status = 403
                /\ lastResp.detail = "User is not authorized to access this application"
                /\ lastResp.location = None
           ELSE /\ lastResp.status = 307
                /\ lastResp.location =
                       "/unauthorized.html?email=" \o EscapedEmail(DispatchToken.email)

\* C14 witness: a valid session of c@x.com, rejected by the provider, asked
\* for a page and was sent to the unauthorized page
C14_Witness ==
    /\ GatedDispatch /\ DispatchTokenValid /\ DispatchRejected
    /\ ~IsApiPath(lastResp.req.path)
    /\ lastResp.location = "/unauthorized.html?email=c%40x.com"

----------------------------------------------------------------------------
(* Properties of provider selection and of the providers *)

IsYAML(p) == p.kind = "YAMLAuthorizationProvider"
IsEnvironment(p) == p.kind = "EnvironmentAuthorizationProvider"

\* C15 (as claimed): the provider configure_authorization_from_env installs
\* is the AUTHORIZED_USERS list if that is set; else the YAML provider of
\* the file AUTHORIZED_USERS_FILE names if that is set; else the YAML
\* provider of /app/authorized_users.yaml if that file exists; else
\* allow-all.
C15_ProviderPrecedence ==
    middleware_installed =>
        LET p == authorization_provider
        IN IF ~Falsy(env.AUTHORIZED_USERS) THEN IsEnvironment(p)
           ELSE IF ~Falsy(env.AUTHORIZED_USERS_FILE)
           THEN IsYAML(p) /\ p.yaml_path = env.AUTHORIZED_USERS_FILE
           ELSE IF DEFAULT_USERS_PATH \in DOMAIN files
           THEN IsYAML(p) /\ p.yaml_path = DEFAULT_USERS_PATH
           ELSE p = AllowAllProvider

\* C16 (as claimed): whenever a source of authorized users is configured
\* (AUTHORIZED_USERS non-empty, AUTHORIZED_USERS_FILE set, be the file
\* there or not, or the default file present), the provider installed is
\* not allow-all.
C16_MisconfigurationRestrictive ==
    /\ middleware_installed
    /\ \/ ~Falsy(env.AUTHORIZED_USERS)
       \/ ~Falsy(env.AUTHORIZED_USERS_FILE)
       \/ DEFAULT_USERS_PATH \in DOMAIN files
    => authorization_provider.kind # "AllowAllProvider"

IsAuthz == lastResp.kind = "authz"

\* the set of emails each AUTHORIZED_USERS value of the model stands for
ListedEmails(value) ==
    CASE value = "a@x.com, B@X.com"    -> {"a@x.com", "b@x.com"}
      [] value = "a@x.com,,A@X.COM , " -> {"a@x.com"}
      [] value = " , "                 -> {}

\* email, written in lower case, is in the set
InLowerCase(email, set) ==
    \/ email \in {"a@x.com", "A@X.COM"} /\ "a@x.com" \in set
    \/ email \in {"b@x.com", "B@X.com"} /\ "b@x.com" \in set
    \/ email = "c@x.com" /\ "c@x.com" \in set

\* C17: the environment provider holds the trimmed, lower-cased, non-empty
\* items of the comma-delimited value, each once, and is_authorized(e) is
\* true exactly for the e whose lower-case form is among them.
C17_EnvironmentProvider ==
    /\ IsEnvironment(authorization_provider) =>
           authorization_provider.emails = ListedEmails(env.AUTHORIZED_USERS)
    /\ IsAuthz /\ IsEnvironment(lastResp.provider) =>
           (lastResp.result <=>
                InLowerCase(lastResp.email, ListedEmails(env.AUTHORIZED_USERS)))

\* C17 witness: under "a@x.com, B@X.com" the provider was asked about
\* A@X.COM and authorized it
C17_Witness ==
    /\ IsAuthz /\ IsEnvironment(lastResp.provider)
    /\ env.AUTHORIZED_USERS = "a@x.com, B@X.com"
    /\ lastResp.email = "A@X.COM"
    /\ lastResp.result

\* the lower-cased emails of the entries that are a string or a mapping
\* with an email
EntryEmails(users) ==
    {Lower(users[i].value) : i \in {j \in DOMAIN users : users[j].type = "str"}}
    \cup {Lower(users[i].email) :
              i \in {j \in DOMAIN users : /\ users[j].type = "dict"
                                           /\ users[j].has_email
                                           /\ users[j].email # None}}

\* C18 (as claimed): the YAML provider holds the lower-cased email of every
\* entry that is a string or a mapping with an email key, and nothing
\* else; is_authorized(e) is true exactly for the e whose lower-case form
\* is in that set.
C18_YAMLParsing ==
    /\ IsYAML(authorization_provider) =>
           authorization_provider.emails =
               EntryEmails(users_of(authorization_provider.yaml_path, files))
    /\ IsAuthz /\ IsYAML(lastResp.provider) =>
           (lastResp.result <=>
                InLowerCase(lastResp.email,
                            EntryEmails(users_of(lastResp.provider.yaml_path, files))))

----------------------------------------------------------------------------
(* Properties of configuration loading *)

IsConfig == lastResp.kind = "config"

\* the configuration error from_env is to raise: the first of the two
\* required variables that is absent or empty, None if both are there
RequiredError ==
    IF Falsy(env.GOOGLE_CLIENT_ID) THEN "ValueError: GOOGLE_CLIENT_ID"
    ELSE IF Falsy(env.GOOGLE_CLIENT_SECRET) THEN "ValueError: GOOGLE_CLIENT_SECRET"
    ELSE None

\* the config from_env is to return: the credentials of the environment,
\* JWT_SECRET if set and otherwise a secret not generated before, the
\* lifetime of JWT_EXPIRATION_HOURS and 24 hours without it
LoadedAsConfigured ==
    /\ lastResp.raised = None
    /\ lastResp.config.google_client_id = env.GOOGLE_CLIENT_ID
    /\ lastResp.config.google_client_secret = env.GOOGLE_CLIENT_SECRET
    /\ IF Falsy(env.JWT_SECRET)
       THEN /\ randCount = lastResp.rand_before + 1
            /\ lastResp.config.jwt_secret = random_secret(randCount)
            /\ \A n \in 1..lastResp.rand_before :
                   lastResp.config.jwt_secret # random_secret(n)
       ELSE /\ randCount = lastResp.rand_before
            /\ lastResp.config.jwt_secret = env.JWT_SECRET
    /\ lastResp.config.jwt_expiration_hours =
           (CASE env.JWT_EXPIRATION_HOURS = None -> 24
              [] env.JWT_EXPIRATION_HOURS = "1"  -> 1
              [] OTHER -> 0)

\* C20 (as claimed): from_env raises the ValueError naming the variable when
\* GOOGLE_CLIENT_ID or GOOGLE_CLIENT_SECRET is absent or empty, and
\* succeeds whenever both are present.
C20_FromEnvSucceedsWhenBothPresent ==
    IsConfig =>
        IF RequiredError # None THEN lastResp.raised = RequiredError
        ELSE LoadedAsConfigured

\* C20 (amended): from_env raises the ValueError naming the variable when
\* GOOGLE_CLIENT_ID or GOOGLE_CLIENT_SECRET is absent or empty; with both
\* present and JWT_EXPIRATION_HOURS absent or an integer literal it
\* succeeds, with JWT_SECRET if that is non-empty and otherwise a fresh
\* random secret, and a lifetime of 24 hours by default; with both present
\* and a JWT_EXPIRATION_HOURS that is no integer literal it raises the
\* ValueError of int().
C20_FromEnvErrors ==
    IsConfig =>
        IF RequiredError # None THEN lastResp.raised = RequiredError
        ELSE IF env.JWT_EXPIRATION_HOURS \in {None, "1"} THEN LoadedAsConfigured
        ELSE lastResp.raised = "ValueError: invalid literal for int()"

\* C20 witness: with the client id present and the client secret empty,
\* from_env raised the error naming GOOGLE_CLIENT_SECRET
C20_Witness ==
    /\ IsConfig
    /\ env.GOOGLE_CLIENT_ID = "cid"
    /\ env.GOOGLE_CLIENT_SECRET = ""
    /\ lastResp.raised = "ValueError: GOOGLE_CLIENT_SECRET"

----------------------------------------------------------------------------
(* Properties of reload *)

\* the set the reload() call in progress ends with: the entries of the file
\* as the call reads it
ReloadedSet(rl, provider) ==
    IF rl.pc = "cleared"
    THEN load_authorized_users(provider.yaml_path, files, {})
    ELSE LoadEntries(rl.users, 1, {})

\* C19 (as claimed): an is_authorized call that runs while reload() is in
\* progress answers as the complete old set or as the complete new set
\* does.
C19_ReloadAtomic ==
    IsAuthz /\ IsYAML(lastResp.provider) /\ lastResp.reloading # NotReloading =>
        LET e == Lower(lastResp.email)
        IN \/ lastResp.result <=> e \in lastResp.reloading.old
           \/ lastResp.result <=> e \in ReloadedSet(lastResp.reloading, lastResp.provider)

----------------------------------------------------------------------------
(* The CSRF state table on its own: generate_oauth_state and               *)
(* validate_oauth_state called in any order while the clock advances by    *)
(* less than, exactly and more than the lifetime of a state.               *)

\* one generate_oauth_state() call; both clock readings fall in the same tick
GenerateState ==
    /\ Quiet
    /\ stateCount < MaxGenerated
    /\ LET gen == generate_oauth_state(oauth_states, stateCount, now, now)
       IN /\ stateCount' = stateCount + 1
          /\ oauth_states' = gen.table
          /\ validated' = [s \in DOMAIN validated \cup {gen.state} |->
                               IF s \in DOMAIN validated THEN validated[s] ELSE 0]
          /\ lastResp' = [kind |-> "state", state |-> gen.state, before |-> oauth_states,
                          at |-> now]
    /\ UNCHANGED <<web_app, wakeup, agent, reloading, now, ticks, env, files, randCount, inflight,
                   sessions, middleware_initialized, middleware_installed,
                   authorization_provider>>

\* one validate_oauth_state(state) call
ValidateState(state) ==
    /\ Quiet
    /\ LET v == validate_oauth_state(oauth_states, state)
       IN /\ oauth_states' = v.table
          /\ validated' = IF v.ok THEN [validated EXCEPT ![state] = @ + 1] ELSE validated
          /\ lastResp' = [kind |-> "validate", state |-> state, ok |-> v.ok,
                          before |-> oauth_states, at |-> now]
    /\ UNCHANGED <<web_app, wakeup, agent, reloading, now, ticks, env, files, randCount, stateCount,
                   inflight, sessions, middleware_initialized, middleware_installed,
                   authorization_provider>>

NextStates ==
    \* the clock advances by less than, exactly, and more than the lifetime
    \/ \E d \in {Minutes(4), Minutes(STATE_TTL_MINUTES), Minutes(STATE_TTL_MINUTES) + 1} :
           Tick(d)
    \/ GenerateState
    \/ \E state \in PresentedStates : ValidateState(state)
    \/ Respond

SpecStates == Init /\ [][NextStates]_vars

----------------------------------------------------------------------------
(* The application object over the lifetime of a container: webapp() is    *)
(* invoked again and again while the environment and the authorized-users  *)
(* file change, and the provider is consulted in between.                  *)

\* os.environ[name] = value, or its removal
PutEnv(name, value) ==
    /\ Quiet
    /\ env[name] # value
    /\ env' = [env EXCEPT ![name] = value]
    /\ UNCHANGED <<web_app, wakeup, agent, reloading, now, ticks, files, randCount, stateCount,
                   oauth_states, validated, inflight, sessions, middleware_initialized,
                   middleware_installed, authorization_provider, lastResp>>

\* environments with and without OAuth credentials and authorized users
AppEnvs ==
    [GOOGLE_CLIENT_ID     : {None, "cid"},
     GOOGLE_CLIENT_SECRET : {"csecret"},
     JWT_SECRET           : {"K"},
     JWT_EXPIRATION_HOURS : {None},
     OAUTH_REDIRECT_URI   : {None},
     AUTHORIZED_USERS     : {None, "a@x.com, B@X.com"},
     AUTHORIZED_USERS_FILE : {None, "/etc/users.yaml"}]

\* contents of the authorized-users file
AppDocs == {UsersDoc(<<StrEntry("a@x.com")>>), UsersDoc(<<StrEntry("c@x.com")>>)}

InitApp ==
    InitWith(AppEnvs \X {[f \in {"/etc/users.yaml"} |-> doc] : doc \in AppDocs})

NextApp ==
    \/ Webapp
    \/ \E name \in {"GOOGLE_CLIENT_ID", "AUTHORIZED_USERS", "AUTHORIZED_USERS_FILE"} :
       \E value \in {e[name] : e \in AppEnvs} : PutEnv(name, value)
    \/ \E doc \in AppDocs : EditFile("/etc/users.yaml", doc)
    \/ \E email \in {"a@x.com", "c@x.com"} : IsAuthorized(email)
    \/ Respond

SpecApp == InitApp /\ [][NextApp]_vars

----------------------------------------------------------------------------
(* The middleware when something it calls fails: a JWT_EXPIRATION_HOURS    *)
(* that is no number, session tokens that lack claims, a provider whose    *)
(* backend raises.                                                         *)

\* set_authorization_provider(provider)
SetProvider(provider) ==
    /\ Quiet
    /\ middleware_initialized
    /\ authorization_provider # provider
    /\ authorization_provider' = provider
    /\ UNCHANGED <<web_app, wakeup, agent, reloading, now, ticks, env, files, randCount, stateCount,
                   oauth_states, validated, inflight, sessions, middleware_initialized,
                   middleware_installed, lastResp>>

\* environments with both credentials and a fixed secret; the token
\* lifetime is unset or no number
DegradeEnvs ==
    [GOOGLE_CLIENT_ID     : {"cid"},
     GOOGLE_CLIENT_SECRET : {"csecret"},
     JWT_SECRET           : {"K"},
     JWT_EXPIRATION_HOURS : {None, "abc"},
     OAUTH_REDIRECT_URI   : {None},
     AUTHORIZED_USERS     : {None, "a@x.com"},
     AUTHORIZED_USERS_FILE : {None}]

\* session tokens of the requests: complete ones minted now, some that
\* lack claims, and garbage
DegradeTokens ==
    {x \in SignedTokens : x.iat = 0} \cup PartialTokens \cup {GarbageToken}

InitDegrade == InitWith(DegradeEnvs \X {NoFiles})

NextDegrade ==
    \/ ~middleware_initialized /\ Webapp
    \/ SetProvider(FailingProvider)
    \/ Quiet /\ \E path \in {<<"login.html">>, <<"index.html">>, <<"api", "agents">>},
                       cookie \in DegradeTokens, raises \in BOOLEAN :
                    Dispatch(path, cookie, Absent, raises)
    \/ Respond

SpecDegrade == InitDegrade /\ [][NextDegrade]_vars

----------------------------------------------------------------------------
(* The scheduled wakeup job: agent_wakeup() walks the roster of            *)
(* /data/agents.json and messages the agents enabled for autonomous        *)
(* wakeup.  Sending and logging can fail for each agent.                    *)

\* a roster entry; "absent" is a key the entry does not have
RosterEntry(agent_id, enabled, prompt) ==
    [agent_id |-> agent_id, autonomous_enabled |-> enabled, wakeup_prompt |-> prompt]

\* the entries rosters are made of: enabled, disabled, without the
\* autonomous_enabled key, without agent_id, with an empty agent_id, and
\* with a prompt that names a field other than {timestamp}
RosterEntries ==
    {RosterEntry("ag1", "True", "absent"),
     RosterEntry("ag2", "False", "absent"),
     RosterEntry("ag3", "absent", "absent"),
     RosterEntry(None, "True", "absent"),
     RosterEntry("", "True", "absent"),
     RosterEntry("ag4", "True", "Hello {name}")}

\* load_agent_roster: the rosters the file can hold
Rosters == UNION {[1..n -> RosterEntries] : n \in 0..MaxRoster}

\* wakeup_prompt.format(timestamp=...) raises KeyError for another field
format_raises(prompt) == prompt = "Hello {name}"

\* the loop body that drops the exception instead of recording it
visit_agent_unrecorded(agent_config, outcome, results) ==
    IF Falsy(agent_config.agent_id)
    THEN [results |-> results, sent |-> FALSE]
    ELSE IF agent_config.autonomous_enabled # "True"
    THEN [results |-> [results EXCEPT !.agents_skipped = @ + 1], sent |-> FALSE]
    ELSE IF format_raises(agent_config.wakeup_prompt)
    THEN [results |-> results, sent |-> FALSE]
    ELSE IF outcome = "send_raises"
    THEN [results |-> results, sent |-> TRUE]
    ELSE IF outcome = "log_raises"
    THEN [results |-> results, sent |-> TRUE]
    ELSE [results |-> [results EXCEPT !.agents_processed = @ + 1], sent |-> TRUE]

\* the body of the loop of agent_wakeup for one roster entry: the results
\* after it, and whether client.send_message was called
visit_agent(agent_config, outcome, results) ==
    LET failed(exc) ==
            [results EXCEPT !.errors =
                 Append(@, [agent_id |-> agent_config.agent_id, error |-> exc])]
    IN IF Falsy(agent_config.agent_id)
       THEN [results |-> results, sent |-> FALSE]
       ELSE IF agent_config.autonomous_enabled # "True"
       THEN [results |-> [results EXCEPT !.agents_skipped = @ + 1], sent |-> FALSE]
       ELSE IF format_raises(agent_config.wakeup_prompt)
       THEN [results |-> failed("KeyError"), sent |-> FALSE]
       ELSE IF outcome = "send_raises"
       THEN [results |-> failed("send_message failed"), sent |-> TRUE]
       ELSE IF outcome = "log_raises"
       THEN [results |-> failed("log_wakeup failed"), sent |-> TRUE]
       ELSE [results |-> [results EXCEPT !.agents_processed = @ + 1], sent |-> TRUE]

\* agent_wakeup up to the loop: the roster is loaded, the results are empty
WakeupStart(roster) ==
    /\ wakeup = NoWakeup
    /\ wakeup' = [pc |-> "loop", roster |-> roster, i |-> 1,
                  results |-> [agents_processed |-> 0, agents_skipped |-> 0, errors |-> << >>],
                  visited |-> << >>, sent |-> << >>]
    /\ UNCHANGED <<web_app, agent, reloading, now, ticks, env, files, randCount, stateCount,
                   oauth_states, validated, inflight, sessions, middleware_initialized,
                   middleware_installed, authorization_provider, lastResp>>

\* one iteration of the loop
WakeupVisit(outcome) ==
    /\ wakeup.pc = "loop"
    /\ wakeup.i <= Len(wakeup.roster)
    /\ LET v == visit_agent(wakeup.roster[wakeup.i], outcome, wakeup.results)
       IN wakeup' = [wakeup EXCEPT !.i = @ + 1,
                                   !.results = v.results,
                                   !.visited = Append(@, wakeup.i),
                                   !.sent = IF v.sent THEN Append(@, wakeup.i) ELSE @]
    /\ UNCHANGED <<web_app, agent, reloading, now, ticks, env, files, randCount, stateCount,
                   oauth_states, validated, inflight, sessions, middleware_initialized,
                   middleware_installed, authorization_provider, lastResp>>

\* the loop is over: volume.commit() and return results
WakeupFinish ==
    /\ wakeup.pc = "loop"
    /\ wakeup.i > Len(wakeup.roster)
    /\ wakeup' = [wakeup EXCEPT !.pc = "done"]
    /\ UNCHANGED <<web_app, agent, reloading, now, ticks, env, files, randCount, stateCount,
                   oauth_states, validated, inflight, sessions, middleware_initialized,
                   middleware_installed, authorization_provider, lastResp>>

NextWakeup ==
    \/ \E roster \in Rosters : WakeupStart(roster)
    \/ \E outcome \in {"ok", "send_raises", "log_raises"} : WakeupVisit(outcome)
    \/ WakeupFinish

SpecWakeup == Init /\ [][NextWakeup]_vars

----------------------------------------------------------------------------
(* ModalettaAgent: the id is created on first use and cleared by delete(). *)
(* Every call of the backend client can fail; the calls made are logged.   *)

\* the id the backend returns from its n-th successful create_agent
new_agent_id(n) == "new" \o ToString(n)

\* one call of the backend client, as logged: `held' is _agent_id when the
\* call was made, `id' the id passed to (or returned by) the backend
BackendCall(op, id, ok, held) == [op |-> op, id |-> id, ok |-> ok, held |-> held]

\* ModalettaAgent(agent_id=...)
NewAgent(agent_id) ==
    [pc |-> "live", supplied |-> agent_id, _agent_id |-> agent_id, created |-> 0,
     calls |-> << >>, ops |-> 0, last |-> [op |-> "__init__", held |-> agent_id, calls |-> 0]]

\* the agent_id property without the `is None' test
agent_id_property_eager(a, ok) ==
    IF ok
    THEN LET id == new_agent_id(a.created + 1)
         IN [agent |-> [a EXCEPT !._agent_id = id, !.created = @ + 1,
                                 !.calls = Append(@, BackendCall("create_agent", id, TRUE,
                                                                 a._agent_id))],
             raised |-> FALSE, value |-> id]
    ELSE [agent |-> [a EXCEPT !.calls = Append(@, BackendCall("create_agent", None, FALSE,
                                                              a._agent_id))],
          raised |-> TRUE, value |-> None]

\* the agent_id property: the object after the read, whether the read
\* raised, and the id returned; ok tells whether client.create_agent
\* returns or raises
agent_id_property(a, ok) ==
    IF a._agent_id = None
    THEN IF ok
         THEN LET id == new_agent_id(a.created + 1)
              IN [agent |-> [a EXCEPT !._agent_id = id, !.created = @ + 1,
                                      !.calls = Append(@, BackendCall("create_agent", id, TRUE,
                                                                      None))],
                  raised |-> FALSE, value |-> id]
         ELSE [agent |-> [a EXCEPT !.calls = Append(@, BackendCall("create_agent", None, FALSE,
                                                                   None))],
               raised |-> TRUE, value |-> None]
    ELSE [agent |-> a, raised |-> FALSE, value |-> a._agent_id]

\* send_message and get_info: self.client.<op>(self.agent_id, ...)
client_call(a, op, ok) ==
    LET r == agent_id_property(a, ok)
    IN IF r.raised THEN r.agent
       ELSE [r.agent EXCEPT !.calls = Append(@, BackendCall(op, r.value, TRUE, r.value))]

\* delete(); ok tells whether client.delete_agent returns or raises
delete(a, ok) ==
    IF ~Falsy(a._agent_id)
    THEN IF ok
         THEN [a EXCEPT !.calls = Append(@, BackendCall("delete_agent", a._agent_id, TRUE,
                                                        a._agent_id)),
                        !._agent_id = None]
         ELSE [a EXCEPT !.calls = Append(@, BackendCall("delete_agent", a._agent_id, FALSE,
                                                        a._agent_id))]
    ELSE a

\* the object after one operation, with the operation noted in `last'
After(a, op, b) ==
    [b EXCEPT !.ops = @ + 1,
              !.last = [op |-> op, held |-> a._agent_id, calls |-> Len(a.calls)]]

AgentNew(agent_id) ==
    /\ agent = NoAgent
    /\ agent' = NewAgent(agent_id)
    /\ UNCHANGED <<web_app, wakeup, reloading, now, ticks, env, files, randCount, stateCount,
                   oauth_states, validated, inflight, sessions, middleware_initialized,
                   middleware_installed, authorization_provider, lastResp>>

\* a read of agent.agent_id
AgentRead(ok) ==
    /\ agent.pc = "live"
    /\ agent.ops < MaxOps
    /\ agent' = After(agent, "agent_id", agent_id_property(agent, ok).agent)
    /\ UNCHANGED <<web_app, wakeup, reloading, now, ticks, env, files, randCount, stateCount,
                   oauth_states, validated, inflight, sessions, middleware_initialized,
                   middleware_installed, authorization_provider, lastResp>>

\* agent.send_message(...)
AgentSendMessage(ok) ==
    /\ agent.pc = "live"
    /\ agent.ops < MaxOps
    /\ agent' = After(agent, "send_message", client_call(agent, "send_message", ok))
    /\ UNCHANGED <<web_app, wakeup, reloading, now, ticks, env, files, randCount, stateCount,
                   oauth_states, validated, inflight, sessions, middleware_initialized,
                   middleware_installed, authorization_provider, lastResp>>

\* agent.get_info()
AgentGetInfo(ok) ==
    /\ agent.pc = "live"
    /\ agent.ops < MaxOps
    /\ agent' = After(agent, "get_info", client_call(agent, "get_agent", ok))
    /\ UNCHANGED <<web_app, wakeup, reloading, now, ticks, env, files, randCount, stateCount,
                   oauth_states, validated, inflight, sessions, middleware_initialized,
                   middleware_installed, authorization_provider, lastResp>>

\* agent.delete()
AgentDelete(ok) ==
    /\ agent.pc = "live"
    /\ agent.ops < MaxOps
    /\ agent' = After(agent, "delete", delete(agent, ok))
    /\ UNCHANGED <<web_app, wakeup, reloading, now, ticks, env, files, randCount, stateCount,
                   oauth_states, validated, inflight, sessions, middleware_initialized,
                   middleware_installed, authorization_provider, lastResp>>

NextAgent ==
    \/ \E agent_id \in {None, "", "given"} : AgentNew(agent_id)
    \/ \E ok \in BOOLEAN : AgentRead(ok)
    \/ \E ok \in BOOLEAN : AgentSendMessage(ok)
    \/ \E ok \in BOOLEAN : AgentGetInfo(ok)
    \/ \E ok \in BOOLEAN : AgentDelete(ok)

SpecAgent == Init /\ [][NextAgent]_vars

----------------------------------------------------------------------------
(* C21..C30 *)

IsLogin == lastResp.kind = "login"

\* C21: the authorization URL /auth/login redirects to carries exactly the
\* state generate_oauth_state just stored, the configured client id,
\* response type `code', the scopes `openid email profile' and the callback
\* URL; the state it carries is in the table and validates.
C21_AuthUrlParameters ==
    IsLogin =>
        LET url == lastResp.location
        IN /\ lastResp.status = 307
           /\ url.state = random_state(stateCount)
           /\ url.state \in DOMAIN oauth_states
           /\ validated[url.state] = 0
           /\ validate_oauth_state(oauth_states, url.state).ok
           /\ url.client_id = env.GOOGLE_CLIENT_ID
           /\ url.response_type = "code"
           /\ url.scope = "openid email profile"
           /\ url.redirect_uri = CALLBACK_URL

\* C21 witness: a login has answered with a redirect whose state is pending
C21_Witness ==
    /\ IsLogin
    /\ lastResp.location.state \in DOMAIN oauth_states
    /\ lastResp.location.client_id = "cid"

\* C22: a callback presenting a state that was issued more than 10 minutes
\* earlier is never accepted: while such a state is in the table, no step
\* counts a successful validation of it, and a callback that presents it
\* with a code and without an error is answered with invalid_state.
C22_ExpiredStateRejected ==
    [][\A s \in DOMAIN oauth_states :
           now - oauth_states[s] > Minutes(STATE_TTL_MINUTES) =>
               /\ validated'[s] = validated[s]
               /\ (/\ Quiet
                   /\ lastResp'.kind = "callback"
                   /\ lastResp'.req.state = s
                   /\ Falsy(lastResp'.req.error) /\ ~Falsy(lastResp'.req.code))
                  => lastResp'.location = ErrorRedirect("invalid_state")]_vars

IsGenerated == lastResp.kind = "state"

\* C23: immediately after every generate_oauth_state call the table holds
\* the new state and no entry older than 10 minutes, and every entry that
\* was in the table and is younger than 10 minutes is still there with its
\* timestamp.
C23_LazyCollection ==
    IsGenerated =>
        /\ lastResp.state \in DOMAIN oauth_states
        /\ oauth_states[lastResp.state] = lastResp.at
        /\ \A s \in DOMAIN oauth_states :
               lastResp.at - oauth_states[s] <= Minutes(STATE_TTL_MINUTES)
        /\ \A s \in DOMAIN lastResp.before :
               lastResp.at - lastResp.before[s] < Minutes(STATE_TTL_MINUTES) =>
                   s \in DOMAIN oauth_states /\ oauth_states[s] = lastResp.before[s]

\* C23 witness: one call collected an entry older than 10 minutes and kept
\* an entry issued before the call and younger than 10 minutes
C23_Witness ==
    /\ IsGenerated
    /\ \E s \in DOMAIN lastResp.before :
           /\ lastResp.at - lastResp.before[s] > Minutes(STATE_TTL_MINUTES)
           /\ s \notin DOMAIN oauth_states
    /\ \E s \in DOMAIN lastResp.before :
           /\ lastResp.at - lastResp.before[s] > 0
           /\ lastResp.at - lastResp.before[s] < Minutes(STATE_TTL_MINUTES)
           /\ s \in DOMAIN oauth_states

\* the AuthMiddleware entries of a middleware stack
AuthEntries(stack) == {i \in 1..Len(stack) : stack[i] = "AuthMiddleware"}

\* the environment holds both OAuth credentials
CredentialsPresent ==
    /\ env.GOOGLE_CLIENT_ID \notin {None, ""}
    /\ env.GOOGLE_CLIENT_SECRET \notin {None, ""}

\* C24: over any number of webapp() invocations the auth middleware is on
\* the stack at most once; the first invocation adds it exactly when both
\* OAuth credentials are present, and no step after the first invocation
\* changes the middleware stack.
C24_MiddlewareOnce ==
    [][/\ Cardinality(AuthEntries(web_app'.user_middleware)) <= 1
       /\ middleware_initialized => web_app'.user_middleware = web_app.user_middleware
       /\ (~middleware_initialized /\ middleware_initialized') =>
              web_app'.user_middleware =
                  IF CredentialsPresent
                  THEN <<"AuthMiddleware">> \o web_app.user_middleware
                  ELSE web_app.user_middleware]_vars

\* C24 witness: webapp() has been invoked twice and the middleware is on
\* the stack once
C24_Witness ==
    /\ web_app.mounts = 2
    /\ Cardinality(AuthEntries(web_app.user_middleware)) = 1

\* C26: every get_authorization_provider call returns the provider that is
\* set, or an allow-all provider when none is set; once webapp() has run
\* (and with it configure_authorization_from_env, when authentication is
\* enabled) no change of the environment or of the files changes the
\* provider that is set.
C26_SingleProvider ==
    [][/\ (lastResp'.kind = "authz" /\ lastResp' # lastResp) =>
              lastResp'.provider = IF authorization_provider = NoProvider
                                   THEN [kind |-> "AllowAllProvider", emails |-> {}]
                                   ELSE authorization_provider
       /\ middleware_initialized => authorization_provider' = authorization_provider
       /\ ~middleware_initialized => authorization_provider = NoProvider]_vars

\* C26 witness: the environment and the files now select another provider
\* than the configured one, and a call returned the configured one
C26_Witness ==
    /\ IsAuthz
    /\ authorization_provider # NoProvider
    /\ configure_authorization_from_env(env, files) # authorization_provider
    /\ lastResp.provider = authorization_provider

\* the latest gated request carried a complete session token, signed with
\* the configured secret and not expired
DispatchSessionValid ==
    /\ lastResp.req.cookie.kind = "jwt"
    /\ lastResp.req.cookie.sig = env.JWT_SECRET
    /\ \A i \in 1..Len(RequiredClaims) : RequiredClaims[i] \in lastResp.req.cookie.claims
    /\ lastResp.at < fromtimestamp(lastResp.req.cookie.exp)

\* building the config raises: JWT_EXPIRATION_HOURS is set and no number
ConfigRaises == env.JWT_EXPIRATION_HOURS \notin {None, "1", "24"}

\* decoding raises: the signature is right, the token is not expired and
\* a claim read with payload[...] is missing
DecodeRaises ==
    /\ lastResp.req.cookie.kind = "jwt"
    /\ lastResp.req.cookie.sig = env.JWT_SECRET
    /\ \/ "exp" \notin lastResp.req.cookie.claims
       \/ lastResp.at < fromtimestamp(lastResp.req.cookie.exp)
    /\ \E i \in 1..Len(RequiredClaims) : RequiredClaims[i] \notin lastResp.req.cookie.claims

\* consulting the provider raises
ProviderRaises == DispatchSessionValid /\ authorization_provider.kind = "FailingProvider"

\* C25: when building the config, decoding the token or consulting the
\* provider raises, a gated request with a token gets the unauthenticated
\* response (401 with "Authentication required" under /api/, the redirect
\* to /login.html elsewhere), nothing propagates and the handler is not
\* invoked.
C25_FailuresDegrade ==
    (/\ GatedDispatch
     /\ lastResp.req.cookie \notin {Absent, Empty}
     /\ ConfigRaises \/ DecodeRaises \/ ProviderRaises) =>
        /\ ~lastResp.handler_invoked
        /\ IF IsApiPath(lastResp.req.path)
           THEN /\ lastResp.status = 401
                /\ lastResp.detail = "Authentication required"
                /\ lastResp.location = None
           ELSE /\ lastResp.status = 307
                /\ lastResp.location = "/login.html"

\* C25 witness: the provider raised for a valid session on an API path and
\* the answer was 401
C25_Witness ==
    /\ GatedDispatch
    /\ ~ConfigRaises
    /\ ProviderRaises
    /\ IsApiPath(lastResp.req.path)
    /\ lastResp.status = 401

\* C27: a gated request with a valid token whose email the active provider
\* accepts is never answered with the unauthenticated response (401
\* "Authentication required" or the redirect to /login.html): the handler
\* is invoked and the answer is the handler's, also when the handler
\* raises.
C27_AuthorizedReachesHandler ==
    (GatedDispatch /\ DispatchTokenValid /\ ~DispatchRejected) =>
        /\ lastResp.handler_invoked
        /\ lastResp.status # 401
        /\ lastResp.location # "/login.html"
        /\ lastResp.status = IF lastResp.handler_raised THEN 500 ELSE 200

\* C28: a callback that carries an error parameter, or lacks code or
\* state, leaves the CSRF table as it was, so a pending state it presented
\* still validates; an entry leaves the table without a login only when a
\* callback validated it, and then exactly the presented state leaves.
C28_RejectedCallbackKeepsStates ==
    [][/\ (/\ Quiet
           /\ lastResp'.kind = "callback"
           /\ \/ lastResp'.req.error \notin {None, ""}
              \/ lastResp'.req.code \in {None, ""}
              \/ lastResp'.req.state \in {None, ""})
          => oauth_states' = oauth_states
       /\ (oauth_states' # oauth_states /\ stateCount' = stateCount) =>
              \E i \in 1..MaxInflight :
                  /\ inflight[i] = Idle
                  /\ inflight'[i] # Idle
                  /\ inflight'[i].req.state \in DOMAIN oauth_states
                  /\ oauth_states' = [s \in DOMAIN oauth_states \ {inflight'[i].req.state} |->
                                          oauth_states[s]]]_vars

\* C28 witness: a callback without code presented a pending state, was
\* answered missing_params, and the state is still pending
C28_Witness ==
    /\ IsCallback
    /\ lastResp.req.code = None
    /\ lastResp.req.error = None
    /\ lastResp.req.state \in DOMAIN oauth_states
    /\ lastResp.location = ErrorRedirect("missing_params")

\* the roster entries up to position n that have a non-empty agent_id
WithAgentId(roster, n) ==
    {k \in 1..n : roster[k].agent_id \notin {None, ""}}

\* C29: an agent_wakeup run visits the roster entries once each, in roster
\* order, to the end whatever fails on the way; after each entry, and so
\* at the end, agents_processed + agents_skipped + len(errors) is the
\* number of entries visited that have an agent_id; send_message is called
\* only for entries whose autonomous_enabled is true.
C29_WakeupAccounting ==
    wakeup.pc \in {"loop", "done"} =>
        LET n == Len(wakeup.visited)
        IN /\ \A k \in 1..n : wakeup.visited[k] = k
           /\ wakeup.i = n + 1
           /\ wakeup.pc = "done" => n = Len(wakeup.roster)
           /\ wakeup.results.agents_processed + wakeup.results.agents_skipped
                  + Len(wakeup.results.errors)
              = Cardinality(WithAgentId(wakeup.roster, n))
           /\ \A m \in 1..Len(wakeup.sent) :
                  /\ wakeup.roster[wakeup.sent[m]].autonomous_enabled = "True"
                  /\ wakeup.roster[wakeup.sent[m]].agent_id \notin {None, ""}
                  /\ \A m2 \in 1..Len(wakeup.sent) : m < m2 => wakeup.sent[m] < wakeup.sent[m2]

\* C29 witness: a finished run in which sending to the first agent failed,
\* the second entry was skipped and the third agent was processed
C29_Witness ==
    /\ wakeup.pc = "done"
    /\ Len(wakeup.roster) = 3
    /\ Len(wakeup.results.errors) = 1
    /\ wakeup.results.errors[1].error = "send_message failed"
    /\ wakeup.results.agents_skipped = 1
    /\ wakeup.results.agents_processed = 1
    /\ wakeup.sent = <<1, 3>>

\* positions of the backend calls of one kind in the log of the agent
CallsOf(op) == {p \in 1..Len(agent.calls) : agent.calls[p].op = op}
\* those that returned
ReturnedCallsOf(op) == {p \in CallsOf(op) : agent.calls[p].ok}

\* the latest operation was delete()
Deleted == agent.pc = "live" /\ agent.last.op = "delete"

\* C30 (as stated): create_agent is called only when the agent has no id,
\* at most once between two deletes and never for an agent constructed
\* with an id; delete() calls the backend delete at most once per id and
\* clears the id; delete() on an agent without id calls nothing.
C30_LazyCreation ==
    agent.pc = "live" =>
        /\ \A p \in CallsOf("create_agent") : agent.calls[p].held = None
        /\ \A p, q \in CallsOf("create_agent") :
               p < q => \E d \in CallsOf("delete_agent") : p < d /\ d < q
        /\ agent.supplied # None => CallsOf("create_agent") = {}
        /\ \A p, q \in CallsOf("delete_agent") :
               p < q => agent.calls[p].id # agent.calls[q].id
        /\ (Deleted /\ agent.last.held \notin {None, ""}) => agent._agent_id = None
        /\ (Deleted /\ agent.last.held \in {None, ""}) => Len(agent.calls) = agent.last.calls

\* C30 (amended): create_agent is called only when the agent holds no id;
\* between two create_agent calls that returned a delete_agent call
\* returned; an agent constructed with an id makes no create_agent call
\* before a delete_agent call returned; delete() passes the held id to the
\* backend once, clears the id when that call returns and keeps it when
\* the call raises; no two delete_agent calls that returned carry the same
\* id; delete() on an agent without id calls nothing.
C30_LazyCreationWhileNoId ==
    agent.pc = "live" =>
        /\ \A p \in CallsOf("create_agent") : agent.calls[p].held = None
        /\ \A p, q \in ReturnedCallsOf("create_agent") :
               p < q => \E d \in ReturnedCallsOf("delete_agent") : p < d /\ d < q
        /\ (agent.supplied # None /\ ReturnedCallsOf("delete_agent") = {}) =>
               CallsOf("create_agent") = {}
        /\ \A p, q \in ReturnedCallsOf("delete_agent") :
               p < q => agent.calls[p].id # agent.calls[q].id
        /\ \A d \in CallsOf("delete_agent") :
               agent.calls[d].id = agent.calls[d].held /\ agent.calls[d].id \notin {None, ""}
        /\ (Deleted /\ agent.last.held \notin {None, ""}) =>
               /\ Len(agent.calls) = agent.last.calls + 1
               /\ agent.calls[Len(agent.calls)].op = "delete_agent"
               /\ agent.calls[Len(agent.calls)].id = agent.last.held
               /\ agent._agent_id = IF agent.calls[Len(agent.calls)].ok
                                    THEN None ELSE agent.last.held
        /\ (Deleted /\ agent.last.held \in {None, ""}) => Len(agent.calls) = agent.last.calls

\* C30 witness: an agent constructed with an id was deleted, used again
\* and so created anew, and deleted again
C30_Witness ==
    /\ Deleted
    /\ agent.supplied = "given"
    /\ agent.created = 1
    /\ Cardinality(ReturnedCallsOf("delete_agent")) = 2
    /\ agent._agent_id = None

====
